---- MODULE Spec2Model ----
(***************************************************************************)
(* virt-who: the collect-batch-dispatch engine of virtwho/virt/virt.py.    *)
(*                                                                         *)
(* One destination worker (DestinationThread, an IntervalThread) reads the *)
(* reports that source workers (Virt) put into the shared datastore,       *)
(* batches them, and submits them to a manager whose answers are chosen    *)
(* nondeterministically.  SHA-256 is modelled as an injective function of  *)
(* the canonical JSON text: a hash is the canonical value itself.          *)
(***************************************************************************)
EXTENDS Integers, Sequences, FiniteSets, TLC

(***************************************************************************)
(* Bounds of the model.                                                    *)
(***************************************************************************)
Interval == 1          \* the worker's interval, in one-second steps
MaxRetryAfter == 2     \* largest retry_after a ManagerThrottleError carries
MaxCount == 2          \* history counters saturate one above the claimed limit

(***************************************************************************)
(* Program constants.                                                      *)
(***************************************************************************)
STATE_UNKNOWN == 0
STATE_RUNNING == 1
STATE_BLOCKED == 2
STATE_PAUSED == 3
STATE_SHUTINGDOWN == 4
STATE_SHUTOFF == 5
STATE_CRASHED == 6
STATE_PMSUSPENDED == 7

STATE_CREATED == 1
STATE_PROCESSING == 2
STATE_FINISHED == 3
STATE_FAILED == 4
STATE_CANCELED == 5

ReportStates == {STATE_CREATED, STATE_PROCESSING, STATE_FINISHED,
                 STATE_FAILED, STATE_CANCELED}
TerminalStates == {STATE_CANCELED, STATE_FAILED, STATE_FINISHED}

(***************************************************************************)
(* Generic helpers.                                                        *)
(***************************************************************************)
Range(s) == {s[i] : i \in DOMAIN s}

Min(a, b) == IF a < b THEN a ELSE b

SelectKeys(s, drop) == SelectSeq(s, LAMBDA k : k \notin drop)

\* All orders in which the elements of a finite set can be enumerated.
Orders(S) ==
    {s \in [1..Cardinality(S) -> S] : \A i, j \in 1..Cardinality(S) : s[i] = s[j] => i = j}

\* Python's sorted(seq, key=...): a stable insertion sort.  keys[i] is the integer
\* key of s[i].
RECURSIVE InsertSorted(_, _, _, _)
InsertSorted(x, kx, s, keys) ==
    IF s = <<>> THEN <<x>>
    ELSE IF kx < Head(keys) THEN <<x>> \o s
    ELSE <<Head(s)>> \o InsertSorted(x, kx, Tail(s), Tail(keys))

RECURSIVE SortedKeys(_)
SortedKeys(keys) ==
    IF keys = <<>> THEN <<>>
    ELSE LET front == SortedKeys(SubSeq(keys, 1, Len(keys) - 1))
         IN  InsertSorted(keys[Len(keys)], keys[Len(keys)], front, front)

RECURSIVE sorted(_, _)
sorted(s, keys) ==
    IF s = <<>> THEN <<>>
    ELSE LET n == Len(s)
         IN  InsertSorted(s[n], keys[n],
                          sorted(SubSeq(s, 1, n - 1), SubSeq(keys, 1, n - 1)),
                          SortedKeys(SubSeq(keys, 1, n - 1)))

(***************************************************************************)
(* Report model.                                                           *)
(***************************************************************************)
None == [none |-> TRUE]
NotSetSentinel == [type |-> "NotSetSentinel"]

Guest(uuid, state) == [uuid |-> uuid, virtWhoType |-> "fake", state |-> state]

Guest_toDict(g) ==
    [guestId |-> g.uuid,
     state |-> g.state,
     attributes |-> [virtWhoType |-> g.virtWhoType,
                     active |-> IF g.state \in {STATE_RUNNING, STATE_PAUSED} THEN 1 ELSE 0]]

\* The names of the facts of a hypervisor.
CPU_SOCKET_FACT == 1
HYPERVISOR_TYPE_FACT == 2
HYPERVISOR_VERSION_FACT == 3

\* An optional facts mapping: NoFacts is Python's None; the items of a mapping are
\* its <<name, value>> pairs in the order the dict yields them.
NoFacts == [given |-> FALSE, items |-> <<>>]
Facts(items) == [given |-> TRUE, items |-> items]

\* Hypervisor(hypervisorId, guestIds): name and facts are None.
Hypervisor(hypervisorId, guestIds) ==
    [hypervisorId |-> hypervisorId, guestIds |-> guestIds, facts |-> NoFacts]

HypervisorWithFacts(hypervisorId, guestIds, facts) ==
    [hypervisorId |-> hypervisorId, guestIds |-> guestIds, facts |-> facts]

\* sorted([g.toDict() for g in guests], key=itemgetter('guestId'))
SortedGuests(guests) ==
    sorted([i \in DOMAIN guests |-> Guest_toDict(guests[i])],
           [i \in DOMAIN guests |-> guests[i].uuid])

Hypervisor_toDict(h) ==
    IF h.facts.given
    THEN [hypervisorId |-> [hypervisorId |-> h.hypervisorId],
          guestIds |-> SortedGuests(h.guestIds),
          facts |-> h.facts.items]
    ELSE [hypervisorId |-> [hypervisorId |-> h.hypervisorId],
          guestIds |-> SortedGuests(h.guestIds)]

\* json.dumps(d, sort_keys=True) of a hypervisor's dict: the items of every mapping
\* in the order of their keys.  Records have no order of their own; the facts, kept
\* as items, are sorted by name.
json_dumps(d) ==
    IF "facts" \in DOMAIN d
    THEN [d EXCEPT !.facts = sorted(@, [i \in DOMAIN @ |-> @[i][1]])]
    ELSE d

\* Hypervisor.getHash
getHash(h) == [sha256 |-> json_dumps(Hypervisor_toDict(h))]

ErrorReport(config) == [type |-> "ErrorReport", config |-> config]

DomainListReport(config, guests) ==
    [type |-> "DomainListReport", config |-> config, guests |-> guests,
     hypervisor_id |-> None]

\* An optional pattern list: NoPatterns is Python's None.
NoPatterns == [given |-> FALSE, patterns |-> <<>>]
Patterns(list) == [given |-> TRUE, patterns |-> list]

\* exclude_hosts / filter_hosts come from the report's config when not given.
HostGuestAssociationReport(config, assoc, exclude_hosts, filter_hosts) ==
    [type |-> "HostGuestAssociationReport", config |-> config, assoc |-> assoc,
     exclude_hosts |-> exclude_hosts, filter_hosts |-> filter_hosts]

\* Patterns: a host id matches the pattern equal to it, and Star matches every host
\* (the shell globs "name" and "*" of fnmatch).
Star == 0
fnmatch(host, pattern) == pattern = Star \/ pattern = host

\* re.match("^" + i + "$", host): a host id matches the pattern equal to it, DotStar
\* (".*") matches every host, and Star ("*") is no regular expression: re.error is
\* swallowed.
DotStar == -1
re_match(host, pattern) == pattern = DotStar \/ (pattern # Star /\ pattern = host)

\* Mutant: only the first pattern of the list is tried.
_filter_firstOnly(host, filterlist) ==
    /\ filterlist # <<>>
    /\ (fnmatch(host, filterlist[1]) \/ re_match(host, filterlist[1]))

_filter(host, filterlist) ==
    \E i \in DOMAIN filterlist :
        fnmatch(host, filterlist[i]) \/ re_match(host, filterlist[i])

\* The loop body of association: FALSE when the host is skipped.
KeepHost(report, host) ==
    /\ ~(report.exclude_hosts.given
          /\ _filter(host.hypervisorId, report.exclude_hosts.patterns))
    /\ ~(report.filter_hosts.given
          /\ ~_filter(host.hypervisorId, report.filter_hosts.patterns))

association(report) == SelectSeq(report.assoc, LAMBDA host : KeepHost(report, host))

serializedAssociation(report) ==
    LET eff == association(report)
    IN  [hypervisors |-> sorted([i \in DOMAIN eff |-> Hypervisor_toDict(eff[i])],
                                [i \in DOMAIN eff |-> eff[i].hypervisorId])]

\* report.hash: SHA-256 of canonical JSON for the two data reports, the object's
\* identity hash for an ErrorReport (never equal to a recorded SHA-256).
hash(report) ==
    IF report.type = "HostGuestAssociationReport"
        THEN [sha256 |-> [hypervisors |->
                             [i \in DOMAIN serializedAssociation(report).hypervisors |->
                                 json_dumps(serializedAssociation(report).hypervisors[i])]]]
    ELSE IF report.type = "DomainListReport"
        THEN [sha256 |-> [guests |-> SortedGuests(report.guests),
                          hypervisor_id |-> report.hypervisor_id]]
    ELSE [object_id |-> report.config]

(***************************************************************************)
(* Configuration of the modelled worker set.                               *)
(***************************************************************************)
SourceKeys == {"A", "B"}

\* config.exclude_hosts / config.filter_hosts of each source configuration.
ConfigExcludeHosts(k) == IF k = "A" THEN Patterns(<<3>>) ELSE NoPatterns
ConfigFilterHosts(k) == NoPatterns

\* What the backend of source k can return from getHostGuestMapping().
HostGuestMappings(k) ==
    IF k = "A"
    THEN {<<Hypervisor(3, <<>>), Hypervisor(1, <<>>)>>,
          <<Hypervisor(1, <<Guest(1, STATE_RUNNING)>>)>>}
    ELSE {<<Hypervisor(2, <<>>)>>, <<>>}

\* What the backend of source k can return from listDomains().
DomainLists(k) ==
    IF k = "A"
    THEN {<<Guest(2, STATE_SHUTOFF), Guest(1, STATE_RUNNING)>>, <<Guest(1, STATE_RUNNING)>>}
    ELSE {<<Guest(3, STATE_PAUSED)>>, <<>>}

\* Virt._get_report of the source worker for key k.
_get_report(k, hypervisorMode) ==
    IF hypervisorMode
    THEN {HostGuestAssociationReport(k, m, ConfigExcludeHosts(k), ConfigFilterHosts(k)) :
              m \in HostGuestMappings(k)}
    ELSE {DomainListReport(k, d) : d \in DomainLists(k)}

PollingInterval == Interval

NoResult == "None"
NoWait == "none"
JobHandle == "job"
Falsy == "falsy"

NoCall == [op |-> "none", outcome |-> "none", retry_after |-> 0, arg |-> <<>>]
Call(op, outcome, retry_after, arg) ==
    [op |-> op, outcome |-> outcome, retry_after |-> retry_after, arg |-> arg]

(***************************************************************************)
(* State.                                                                  *)
(***************************************************************************)
VARIABLES
    terminate_event,           \* the Event shared by the worker set
    internal_terminate_event,  \* the destination worker's own Event
    oneshot,                   \* self._oneshot
    print_,                    \* self.options.print_
    isHypervisor,              \* isHypervisor() of each source backend
    config,                    \* self.config.name of the worker
    datastore,                 \* source key -> most recent report
    source_keys,               \* self.source_keys
    last_report_for_source,    \* self.last_report_for_source
    interval_modifier,         \* self.interval_modifier
    pc,                        \* position of the destination worker in run()
    has_error,                 \* local of run()
    gd_idx,                    \* position of the for loop of _get_data
    data_to_send,              \* `reports` of _get_data, then the argument of _send_data
    all_hypervisors, domain_list_reports, reports_batched,
    sources_sent, sources_erred,
    result,                    \* job handle returned by hypervisorCheckIn
    batch_state,               \* batch_host_guest_report.state
    initial_job_check,
    dl_idx,                    \* position of the for loop over domain_list_reports
    iteritems,                 \* Satellite 5: what is left of data_to_send.iteritems()
    wait_left, wait_ret,       \* remaining iterations of wait() and where it returns to
    delta_seconds,             \* local of _run(): whole seconds the latest cycle took
    last_call,                 \* history: the latest outbound manager call of this cycle
    slept,                     \* history: one-second sleeps since that call
    inflight,                  \* history: a submitted batch is neither terminal nor abandoned
    batches,                   \* history: batches accepted by hypervisorCheckIn this cycle
    lr_before,                 \* history: last_report_for_source when _send_data started
    failed_hash,               \* history: how the latest batch ended when its reports can
                               \* be selected again ("none" otherwise), its job handle and the
                               \* hashes of its reports
    calls_after_term,          \* history: outbound calls made while is_terminated()
    prepared,                  \* history: prepare() has been invoked on this worker
    reports_to_print,          \* self.reports_to_print
    executor_pc,               \* position of the Executor in the method it runs
    threads,                   \* the workers handed to the Executor's method
    threads_not_terminated,    \* wait_on_threads: the workers still polled
    max_wait, kill_on_expiry,  \* arguments of wait_on_threads
    total_waited,              \* wait_on_threads: seconds slept so far
    sleep_calls,               \* history: the arguments of the calls of time.sleep
    terminate_threads_called,  \* history: terminate_threads has been invoked
    to_terminate,              \* terminate_threads: its argument, what is left of it
    retval,                    \* what the Executor's method returned
    options_pc,                \* option resolution, then construction of a worker
    cli_interval,              \* --interval of the command line (0: not given)
    env_interval,              \* VIRTWHO_INTERVAL of the environment (0: not given)
    file_interval,             \* interval of the [global] section (0: not given)
    options_interval,          \* options.interval as parseOptions returns it
    config_interval,           \* config.interval of the worker's configuration
    self_interval,             \* self.interval of the worker constructed
    report_pc,                 \* construction of a report or hypervisor, then its hash
    report_a, report_b,        \* two instances that differ in the order of their lists
    hash_a, hash_b,            \* their content hashes
    effective,                 \* report_a.association
    hash_unfiltered,           \* the hash of report_a built without host patterns
    workers_pc,                \* the worker set: not constructed yet, or started
    workers,                   \* the worker set: each worker's own Event and wiring
    stop_called                \* history: the worker on which the latest step called stop()

configVars == <<oneshot, print_, isHypervisor, config>>
sharedVars == <<terminate_event, datastore>>
threadVars == <<internal_terminate_event, source_keys, last_report_for_source,
                interval_modifier, pc, has_error>>
localVars == <<gd_idx, data_to_send, all_hypervisors, domain_list_reports,
               reports_batched, sources_sent, sources_erred, result, batch_state,
               initial_job_check, dl_idx>>
waitVars == <<wait_left, wait_ret>>
historyVars == <<last_call, slept, inflight, batches, lr_before, failed_hash,
                 calls_after_term>>
executorVars == <<executor_pc, threads, threads_not_terminated, max_wait, kill_on_expiry,
                  total_waited, sleep_calls, terminate_threads_called, to_terminate,
                  retval>>
optionVars == <<options_pc, cli_interval, env_interval, file_interval, options_interval,
                config_interval, self_interval>>
reportVars == <<report_pc, report_a, report_b, hash_a, hash_b, effective,
                hash_unfiltered>>
otherVars == <<reports_to_print, executorVars, optionVars, reportVars, workers_pc, workers,
              stop_called>>
vars == <<configVars, sharedVars, threadVars, localVars, iteritems, waitVars,
          delta_seconds, historyVars, prepared, otherVars>>

\* config.name of the destination worker.
DestinationConfig == "destination"

NoKeys == [k \in SourceKeys |-> None]

\* An optional max_wait: NoMaxWait is the default, wait without limit.
NoMaxWait == [given |-> FALSE, seconds |-> 0]
MaxWaitOf(n) == [given |-> TRUE, seconds |-> n]

\* No report has been constructed for hashing.
ReportsIdle ==
    /\ report_pc = "idle"
    /\ report_a = None
    /\ report_b = None
    /\ hash_a = None
    /\ hash_b = None
    /\ effective = <<>>
    /\ hash_unfiltered = None

\* No option has been resolved and no worker constructed from the options.
OptionsIdle ==
    /\ options_pc = "idle"
    /\ cli_interval = 0
    /\ env_interval = 0
    /\ file_interval = 0
    /\ options_interval = 0
    /\ config_interval = 0
    /\ self_interval = 0

\* The Executor runs none of its methods.
ExecutorIdle ==
    /\ executor_pc = "idle"
    /\ threads = <<>>
    /\ threads_not_terminated = <<>>
    /\ max_wait = NoMaxWait
    /\ kill_on_expiry = FALSE
    /\ total_waited = 0
    /\ sleep_calls = <<>>
    /\ terminate_threads_called = FALSE
    /\ to_terminate = <<>>
    /\ retval = <<>>

\* No worker set has been constructed.
WorkersIdle ==
    /\ workers_pc = "idle"
    /\ workers = <<>>
    /\ stop_called = {}

NoFailure == [cause |-> "none", hashes |-> NoKeys, handle |-> NoResult]

Init ==
    /\ terminate_event = FALSE
    /\ internal_terminate_event = FALSE
    /\ oneshot \in BOOLEAN
    /\ print_ \in BOOLEAN
    /\ isHypervisor \in {h \in [SourceKeys -> BOOLEAN] : h["B"] => h["A"]}
    /\ config = DestinationConfig
    /\ datastore = [k \in SourceKeys |-> NotSetSentinel]
    /\ source_keys = <<"A", "B">>
    /\ last_report_for_source = NoKeys
    /\ interval_modifier = 0
    /\ pc = "run"
    /\ has_error = FALSE
    /\ gd_idx = 1
    /\ data_to_send = <<>>
    /\ all_hypervisors = <<>>
    /\ domain_list_reports = <<>>
    /\ reports_batched = <<>>
    /\ sources_sent = <<>>
    /\ sources_erred = <<>>
    /\ result = NoResult
    /\ batch_state = STATE_CREATED
    /\ initial_job_check = TRUE
    /\ dl_idx = 1
    /\ iteritems = <<>>
    /\ wait_left = 0
    /\ wait_ret = NoWait
    /\ delta_seconds = 0
    /\ last_call = NoCall
    /\ slept = 0
    /\ inflight = FALSE
    /\ batches = 0
    /\ lr_before = NoKeys
    /\ failed_hash = NoFailure
    /\ calls_after_term = 0
    /\ prepared = FALSE
    /\ reports_to_print = <<>>
    /\ ExecutorIdle
    /\ OptionsIdle
    /\ ReportsIdle
    /\ WorkersIdle

(***************************************************************************)
(* IntervalThread: terminate signalling and wait.                          *)
(***************************************************************************)
\* Mutant: only the worker's own event is consulted.
is_terminated_internalOnly == internal_terminate_event

is_terminated == internal_terminate_event \/ terminate_event

\* Executor's stop() on the destination worker.
stop ==
    /\ ~internal_terminate_event
    /\ internal_terminate_event' = TRUE
    /\ UNCHANGED <<configVars, otherVars, prepared, iteritems, delta_seconds, sharedVars, source_keys, last_report_for_source,
                   interval_modifier, pc, has_error, localVars, waitVars, historyVars>>

\* The owner of the worker set sets the shared terminate event.
set_terminate_event ==
    /\ ~terminate_event
    /\ terminate_event' = TRUE
    /\ UNCHANGED <<configVars, otherVars, prepared, iteritems, delta_seconds, datastore, threadVars, localVars, waitVars, historyVars>>

SleptCap == Interval + MaxRetryAfter

\* The seconds a ManagerThrottleError can carry as retry_after.
RetryAfters == 0..MaxRetryAfter

\* self.wait(wait_time) called from the position that continues at ret:
\* range(wait_time) is empty for wait_time = 0.
CallWait(wait_time, ret) ==
    IF wait_time = 0
    THEN /\ pc' = ret
         /\ UNCHANGED waitVars
    ELSE /\ pc' = "wait"
         /\ wait_left' = wait_time
         /\ wait_ret' = ret

\* Mutant: the loop of wait() does not look at the terminate events.
wait_ignoresTerminate ==
    /\ pc = "wait"
    /\ wait_left' = wait_left - 1
    /\ pc' = IF wait_left = 1 THEN wait_ret ELSE "wait"
    /\ wait_ret' = IF wait_left = 1 THEN NoWait ELSE wait_ret
    /\ slept' = IF last_call = NoCall THEN slept ELSE Min(slept + 1, SleptCap)
    /\ UNCHANGED <<configVars, otherVars, prepared, iteritems, delta_seconds, sharedVars, internal_terminate_event,
                   source_keys, last_report_for_source, interval_modifier, has_error,
                   localVars, last_call, inflight, batches, lr_before, failed_hash,
                   calls_after_term>>

\* One iteration of the for loop of wait(): leave when terminated, else sleep one
\* second; the loop ends after the last sleep without another check.
wait ==
    /\ pc = "wait"
    /\ IF is_terminated
       THEN /\ pc' = wait_ret
            /\ wait_left' = 0
            /\ wait_ret' = NoWait
            /\ UNCHANGED slept
       ELSE /\ wait_left' = wait_left - 1
            /\ pc' = IF wait_left = 1 THEN wait_ret ELSE "wait"
            /\ wait_ret' = IF wait_left = 1 THEN NoWait ELSE wait_ret
            /\ slept' = IF last_call = NoCall THEN slept ELSE Min(slept + 1, SleptCap)
    /\ UNCHANGED <<configVars, otherVars, prepared, iteritems, delta_seconds, sharedVars, internal_terminate_event, source_keys,
                   last_report_for_source, interval_modifier, has_error, localVars,
                   last_call, inflight, batches, lr_before, failed_hash,
                   calls_after_term>>

(***************************************************************************)
(* The source workers other than the worker modelled step by step:         *)
(* Virt._send_data puts the gathered report in the datastore unless the    *)
(* worker is terminated.  Under one-shot a source runs one cycle, and only *)
(* then can its report be an ErrorReport.                                  *)
(***************************************************************************)
SourceData(k) ==
    _get_report(k, isHypervisor[k]) \cup (IF oneshot THEN {ErrorReport(k)} ELSE {})

\* Mutant: an entry already present is kept.
put_keepsOld(store, key, report) ==
    IF store[key] = NotSetSentinel THEN [store EXCEPT ![key] = report] ELSE store

\* Datastore.put(key, report)
put(store, key, report) == [store EXCEPT ![key] = report]

Virt_send_data ==
    \E k \in SourceKeys \ {config} : \E report \in SourceData(k) :
        /\ ~terminate_event
        /\ oneshot => datastore[k] = NotSetSentinel
        /\ datastore' = put(datastore, k, report)
        /\ UNCHANGED <<configVars, otherVars, prepared, iteritems, delta_seconds, terminate_event, threadVars, localVars, waitVars,
                       historyVars>>

(***************************************************************************)
(* IntervalThread.run and IntervalThread._run of the destination worker.   *)
(***************************************************************************)
ResetLocals ==
    /\ gd_idx' = 1
    /\ data_to_send' = <<>>
    /\ all_hypervisors' = <<>>
    /\ domain_list_reports' = <<>>
    /\ reports_batched' = <<>>
    /\ sources_sent' = <<>>
    /\ sources_erred' = <<>>
    /\ result' = NoResult
    /\ batch_state' = STATE_CREATED
    /\ initial_job_check' = TRUE
    /\ dl_idx' = 1

\* An exception other than the manager's three leaves _run and is caught in run.
Raise ==
    /\ pc' = "run_end"
    /\ has_error' = ~is_terminated
    /\ ResetLocals
    /\ last_call' = NoCall
    /\ slept' = 0
    /\ inflight' = FALSE
    /\ batches' = 0

\* The loop head of run(): `while not self.is_terminated(): has_error = False; _run()`.
run ==
    /\ pc = "run"
    /\ IF is_terminated
       THEN pc' = "exited" /\ UNCHANGED has_error
       ELSE pc' = "prepare" /\ has_error' = FALSE
    /\ UNCHANGED <<configVars, otherVars, prepared, iteritems, delta_seconds, sharedVars, internal_terminate_event, source_keys,
                   last_report_for_source, interval_modifier, localVars, waitVars,
                   historyVars>>

\* self.prepare() at the start of _run(): a no-op in DestinationThread.
prepare ==
    /\ pc = "prepare"
    /\ pc' = "_run"
    /\ prepared' = TRUE
    /\ UNCHANGED <<configVars, otherVars, iteritems, delta_seconds, sharedVars, internal_terminate_event, source_keys,
                   last_report_for_source, interval_modifier, has_error, localVars,
                   waitVars, historyVars>>

\* The loop head of _run(): start a cycle unless terminated.
_run ==
    /\ pc = "_run"
    /\ IF is_terminated
       THEN pc' = "run_end"
       ELSE pc' = "_get_data"
    /\ delta_seconds' = 0
    /\ UNCHANGED <<configVars, otherVars, prepared, iteritems, sharedVars, internal_terminate_event, source_keys,
                   last_report_for_source, interval_modifier, has_error, localVars,
                   waitVars, historyVars>>

\* Mutant: the time the cycle took is not subtracted.
WaitTime_noDrift(interval, delta) == interval

\* Mutant: the loop of _run() goes on under one-shot.
_run_after_noBreak ==
    /\ pc = "_run_after"
    /\ \E delta \in 0..(Interval + 1) :
          /\ delta_seconds' = delta
          /\ IF Interval - delta < 0
             THEN pc' = "_run" /\ UNCHANGED waitVars
             ELSE CallWait(Interval - delta, "_run")
    /\ UNCHANGED <<configVars, otherVars, prepared, iteritems, sharedVars, internal_terminate_event, source_keys,
                   last_report_for_source, interval_modifier, has_error, localVars,
                   historyVars>>

\* `wait_time = self.interval - int(delta_seconds)`
WaitTime(interval, delta) == interval - delta

\* The rest of the loop body of _run() after _send_data returned.
_run_after ==
    /\ pc = "_run_after"
    /\ IF oneshot
       THEN /\ internal_terminate_event' = TRUE
            /\ pc' = "run_end"
            /\ UNCHANGED <<waitVars, delta_seconds>>
       ELSE /\ \E delta \in 0..(Interval + 1) :
                /\ delta_seconds' = delta
                /\ LET wait_time == WaitTime(Interval, delta)
                   IN  IF wait_time < 0
                       THEN pc' = "_run" /\ UNCHANGED waitVars
                       ELSE CallWait(wait_time, "_run")
            /\ UNCHANGED internal_terminate_event
    /\ UNCHANGED <<configVars, otherVars, prepared, iteritems, sharedVars, source_keys, last_report_for_source,
                   interval_modifier, has_error, localVars, historyVars>>

\* Mutant: a failed one-shot cycle passes no ErrorReport to _send_data.
run_end_noErrorReport ==
    /\ pc = "run_end"
    /\ IF is_terminated
       THEN /\ internal_terminate_event' = TRUE
            /\ pc' = "exited"
            /\ UNCHANGED <<waitVars, data_to_send>>
       ELSE IF oneshot
       THEN /\ internal_terminate_event' = TRUE
            /\ pc' = "exited"
            /\ UNCHANGED <<waitVars, data_to_send>>
       ELSE /\ CallWait(Interval, "run")
            /\ UNCHANGED <<internal_terminate_event, data_to_send>>
    /\ lr_before' = NoKeys
    /\ UNCHANGED <<configVars, otherVars, prepared, iteritems, delta_seconds, sharedVars, source_keys,
                   last_report_for_source, interval_modifier, has_error, gd_idx,
                   all_hypervisors, domain_list_reports, reports_batched, sources_sent,
                   sources_erred, result, batch_state, initial_job_check, dl_idx,
                   last_call, slept, inflight, batches, failed_hash, calls_after_term>>

\* Mutant: a failed cycle ends a long-running worker.
run_end_stopsOnError ==
    /\ pc = "run_end"
    /\ IF is_terminated
       THEN /\ internal_terminate_event' = TRUE
            /\ pc' = "exited"
            /\ UNCHANGED <<waitVars, data_to_send>>
       ELSE IF oneshot
       THEN IF has_error
            THEN /\ data_to_send' = ErrorReport(config)
                 /\ pc' = "_send_data(ErrorReport)"
                 /\ UNCHANGED <<waitVars, internal_terminate_event>>
            ELSE /\ internal_terminate_event' = TRUE
                 /\ pc' = "exited"
                 /\ UNCHANGED <<waitVars, data_to_send>>
       ELSE IF has_error
       THEN /\ internal_terminate_event' = TRUE
            /\ pc' = "exited"
            /\ UNCHANGED <<waitVars, data_to_send>>
       ELSE /\ CallWait(Interval, "run")
            /\ UNCHANGED <<internal_terminate_event, data_to_send>>
    /\ lr_before' = NoKeys
    /\ UNCHANGED <<configVars, otherVars, prepared, iteritems, delta_seconds, sharedVars, source_keys,
                   last_report_for_source, interval_modifier, has_error, gd_idx,
                   all_hypervisors, domain_list_reports, reports_batched, sources_sent,
                   sources_erred, result, batch_state, initial_job_check, dl_idx,
                   last_call, slept, inflight, batches, failed_hash, calls_after_term>>

\* run() after _run() returned or raised: exit when terminated; under one-shot
\* pass an ErrorReport to _send_data if the cycle failed, then exit; else wait.
run_end ==
    /\ pc = "run_end"
    /\ IF is_terminated
       THEN /\ internal_terminate_event' = TRUE
            /\ pc' = "exited"
            /\ UNCHANGED <<waitVars, data_to_send>>
       ELSE IF oneshot
       THEN IF has_error
            THEN /\ data_to_send' = ErrorReport(config)
                 /\ pc' = "_send_data(ErrorReport)"
                 /\ UNCHANGED <<waitVars, internal_terminate_event>>
            ELSE /\ internal_terminate_event' = TRUE
                 /\ pc' = "exited"
                 /\ UNCHANGED <<waitVars, data_to_send>>
       ELSE /\ CallWait(Interval, "run")
            /\ UNCHANGED <<internal_terminate_event, data_to_send>>
    /\ lr_before' = NoKeys
    /\ UNCHANGED <<configVars, otherVars, prepared, iteritems, delta_seconds, sharedVars, source_keys,
                   last_report_for_source, interval_modifier, has_error, gd_idx,
                   all_hypervisors, domain_list_reports, reports_batched, sources_sent,
                   sources_erred, result, batch_state, initial_job_check, dl_idx,
                   last_call, slept, inflight, batches, failed_hash, calls_after_term>>

\* The rest of run() under one-shot once _send_data(ErrorReport) returned.
run_stopped ==
    /\ internal_terminate_event' = TRUE
    /\ pc' = "exited"

\* _send_data of a destination worker given an ErrorReport: `self.stop(); return`.
_send_data_ErrorReport ==
    /\ pc = "_send_data(ErrorReport)"
    /\ run_stopped
    /\ UNCHANGED <<configVars, otherVars, prepared, iteritems, delta_seconds, sharedVars, source_keys,
                   last_report_for_source, interval_modifier, has_error, localVars,
                   waitVars, historyVars>>

(***************************************************************************)
(* DestinationThread._get_data.                                            *)
(***************************************************************************)
\* Mutant: no report is ever recognised as a duplicate.
IsDuplicate_never(report, source_key) == FALSE

\* Mutant: a source is a duplicate once a report of it has been recorded.
IsDuplicate_anyRecorded(report, source_key) == last_report_for_source[source_key] # None

\* `report.hash == self.last_report_for_source.get(source_key, None)`
IsDuplicate(report, source_key) == hash(report) = last_report_for_source[source_key]

\* One iteration of `for source_key in self.source_keys`.
_get_data ==
    /\ pc = "_get_data"
    /\ IF source_keys = <<>>
       THEN /\ pc' = "_send_data"
            /\ UNCHANGED <<data_to_send, gd_idx>>
       ELSE /\ LET source_key == source_keys[gd_idx]
                   report == datastore[source_key]
               IN  data_to_send' =
                       IF report = NotSetSentinel \/ IsDuplicate(report, source_key)
                       THEN data_to_send
                       ELSE (source_key :> report) @@ data_to_send
            /\ IF gd_idx = Len(source_keys)
               THEN pc' = "_send_data" /\ gd_idx' = 1
               ELSE pc' = "_get_data" /\ gd_idx' = gd_idx + 1
    /\ UNCHANGED <<configVars, otherVars, prepared, iteritems, delta_seconds, sharedVars, internal_terminate_event, source_keys,
                   last_report_for_source, interval_modifier, has_error,
                   all_hypervisors, domain_list_reports, reports_batched, sources_sent,
                   sources_erred, result, batch_state, initial_job_check, dl_idx,
                   waitVars, historyVars>>

(***************************************************************************)
(* DestinationThread._send_data.                                           *)
(***************************************************************************)
KeysOfType(order, data, type) == SelectSeq(order, LAMBDA k : data[k].type = type)

\* Mutant: the unfiltered associations are batched.
RECURSIVE ExtendAll_raw(_, _)
ExtendAll_raw(keys, data) ==
    IF keys = <<>> THEN <<>>
    ELSE data[Head(keys)].assoc \o ExtendAll_raw(Tail(keys), data)

\* all_hypervisors.extend(report.association['hypervisors']) over the batched reports.
RECURSIVE ExtendAll(_, _)
ExtendAll(keys, data) ==
    IF keys = <<>> THEN <<>>
    ELSE association(data[Head(keys)]) \o ExtendAll(Tail(keys), data)

\* The head of _send_data: the early return and the loop that sorts the reports by
\* type.  `order` is the order in which the dict's items are iterated.
_send_data ==
    /\ pc = "_send_data"
    /\ IF data_to_send = <<>>
       THEN /\ pc' = "_run_after"
            /\ failed_hash' = NoFailure
            /\ UNCHANGED <<localVars, last_call, slept, inflight, batches, lr_before,
                           calls_after_term>>
       ELSE \E order \in Orders(DOMAIN data_to_send) :
            LET batched == KeysOfType(order, data_to_send, "HostGuestAssociationReport")
                hypervisors == ExtendAll(batched, data_to_send)
            IN  /\ domain_list_reports' = KeysOfType(order, data_to_send, "DomainListReport")
                /\ reports_batched' = batched
                /\ all_hypervisors' = hypervisors
                /\ sources_sent' = <<>>
                /\ sources_erred' = IF oneshot
                                    THEN KeysOfType(order, data_to_send, "ErrorReport")
                                    ELSE <<>>
                /\ result' = NoResult
                /\ batch_state' = STATE_CREATED
                /\ initial_job_check' = TRUE
                /\ dl_idx' = 1
                /\ pc' = IF hypervisors # <<>> THEN "hypervisorCheckIn" ELSE "sendVirtGuests"
                /\ lr_before' = last_report_for_source
                /\ failed_hash' = NoFailure
                /\ last_call' = NoCall
                /\ slept' = 0
                /\ batches' = 0
                /\ UNCHANGED <<gd_idx, data_to_send, inflight, calls_after_term>>
    /\ UNCHANGED <<configVars, otherVars, prepared, iteritems, delta_seconds, sharedVars, internal_terminate_event, source_keys,
                   last_report_for_source, interval_modifier, has_error, waitVars>>

\* Mutant: the batched sources are not marked erred.
ErredAfterCheckInError_skip(erred, batched) == erred

\* The handler of ManagerError and ManagerFatalError around hypervisorCheckIn.
ErredAfterCheckInError(erred, batched) == IF oneshot THEN erred \o batched ELSE erred

CountCall == IF is_terminated THEN Min(calls_after_term + 1, MaxCount) ELSE calls_after_term

\* One pass of `while result is None`: the call of self.dest.hypervisorCheckIn and
\* the handling of what it returns or raises.
hypervisorCheckIn ==
    /\ pc = "hypervisorCheckIn"
    /\ calls_after_term' = CountCall
    /\ \/ \E handle \in {JobHandle, Falsy} : \E state \in ReportStates :
            /\ result' = handle
            /\ batch_state' = state
            /\ pc' = "poll"
            /\ last_call' = Call("hypervisorCheckIn", "returned", 0, all_hypervisors)
            /\ slept' = 0
            /\ inflight' = (handle = JobHandle /\ state \notin TerminalStates)
            /\ batches' = Min(batches + 1, MaxCount)
            /\ UNCHANGED <<interval_modifier, sources_erred, has_error, waitVars,
                           gd_idx, data_to_send, all_hypervisors, domain_list_reports,
                           reports_batched, sources_sent, initial_job_check, dl_idx>>
       \/ \E retry_after \in RetryAfters :
            /\ interval_modifier' = retry_after
            /\ CallWait(retry_after, "checkin_retry")
            /\ last_call' = Call("hypervisorCheckIn", "ManagerThrottleError", retry_after,
                                 all_hypervisors)
            /\ slept' = 0
            /\ UNCHANGED <<localVars, has_error, inflight, batches>>
       \/ /\ sources_erred' = ErredAfterCheckInError(sources_erred, reports_batched)
          /\ pc' = "poll"
          /\ last_call' = Call("hypervisorCheckIn", "ManagerError", 0, all_hypervisors)
          /\ slept' = 0
          /\ UNCHANGED <<interval_modifier, has_error, waitVars, inflight, batches,
                         gd_idx, data_to_send, all_hypervisors, domain_list_reports,
                         reports_batched, sources_sent, result, batch_state,
                         initial_job_check, dl_idx>>
       \/ /\ Raise
          /\ UNCHANGED <<interval_modifier, waitVars>>
    /\ UNCHANGED <<configVars, otherVars, prepared, iteritems, delta_seconds, sharedVars, internal_terminate_event, source_keys,
                   last_report_for_source, lr_before, failed_hash>>

\* Mutant: interval_modifier is not reset after the throttle wait.
checkin_retry_keepsModifier ==
    /\ pc = "checkin_retry"
    /\ pc' = "hypervisorCheckIn"
    /\ UNCHANGED <<configVars, otherVars, prepared, iteritems, delta_seconds, sharedVars, internal_terminate_event, source_keys,
                   last_report_for_source, interval_modifier, has_error, localVars,
                   waitVars, historyVars>>

\* After the throttle wait: `self.interval_modifier = 0` and the next pass of the loop.
checkin_retry ==
    /\ pc = "checkin_retry"
    /\ interval_modifier' = 0
    /\ pc' = "hypervisorCheckIn"
    /\ UNCHANGED <<configVars, otherVars, prepared, iteritems, delta_seconds, sharedVars, internal_terminate_event, source_keys,
                   last_report_for_source, has_error, localVars, waitVars, historyVars>>

\* Mutant: the job handle is not looked at.
PollAgain_anyHandle(handle, state) == state \notin TerminalStates

\* Mutant: the job is polled once only.
PollAgain_once(handle, state) ==
    handle = JobHandle /\ state \notin TerminalStates /\ initial_job_check

\* The condition of the polling loop.
PollAgain(handle, state) == handle = JobHandle /\ state \notin TerminalStates

\* Mutant: the retry_after of a throttled check is ignored.
PollWaitTime_ignoresModifier(modifier) == PollingInterval

\* wait_time of the polling loop.
PollWaitTime(modifier) == IF modifier # 0 THEN modifier ELSE PollingInterval

\* The head of the polling loop: its condition, the choice of wait_time and the wait.
poll ==
    /\ pc = "poll"
    /\ IF PollAgain(result, batch_state)
       THEN LET wait_time == PollWaitTime(interval_modifier)
            IN  /\ interval_modifier' = 0
                /\ IF ~initial_job_check
                   THEN CallWait(wait_time, "check_report_state")
                   ELSE pc' = "check_report_state" /\ UNCHANGED waitVars
       ELSE /\ pc' = "finish_batch"
            /\ UNCHANGED <<interval_modifier, waitVars>>
    /\ UNCHANGED <<configVars, otherVars, prepared, iteritems, delta_seconds, sharedVars, internal_terminate_event, source_keys,
                   last_report_for_source, has_error, localVars, historyVars>>

\* The call of self.dest.check_report_state in the polling loop and its handlers.
check_report_state ==
    /\ pc = "check_report_state"
    /\ calls_after_term' = CountCall
    /\ \/ \E state \in ReportStates :
            /\ batch_state' = state
            /\ initial_job_check' = FALSE
            /\ pc' = "poll"
            /\ last_call' = Call("check_report_state", "returned", 0, all_hypervisors)
            /\ slept' = 0
            /\ inflight' = (state \notin TerminalStates)
            /\ UNCHANGED <<interval_modifier, has_error, sources_sent, batches,
                           gd_idx, data_to_send, all_hypervisors, domain_list_reports,
                           reports_batched, sources_erred, result, dl_idx>>
       \/ \E retry_after \in RetryAfters :
            /\ interval_modifier' = retry_after
            /\ initial_job_check' = FALSE
            /\ pc' = "poll"
            /\ last_call' = Call("check_report_state", "ManagerThrottleError", retry_after,
                                 all_hypervisors)
            /\ slept' = 0
            /\ UNCHANGED <<has_error, sources_sent, batch_state, inflight, batches,
                           gd_idx, data_to_send, all_hypervisors, domain_list_reports,
                           reports_batched, sources_erred, result, dl_idx>>
       \/ /\ sources_sent' = IF oneshot THEN sources_sent \o reports_batched
                                        ELSE sources_sent
          /\ pc' = "finish_batch"
          /\ last_call' = Call("check_report_state", "ManagerError", 0, all_hypervisors)
          /\ slept' = 0
          /\ inflight' = FALSE
          /\ UNCHANGED <<interval_modifier, has_error, batch_state, initial_job_check,
                         batches, gd_idx, data_to_send, all_hypervisors,
                         domain_list_reports, reports_batched, sources_erred, result,
                         dl_idx>>
       \/ /\ Raise
          /\ UNCHANGED interval_modifier
    /\ UNCHANGED <<configVars, otherVars, prepared, iteritems, delta_seconds, sharedVars, internal_terminate_event, source_keys,
                   last_report_for_source, waitVars, lr_before, failed_hash>>

\* Mutant: nothing is recorded.
RecordSent_skip(last, keys, data) == last

\* Mutant: the hash recorded is that of the report now in the datastore.
RecordSent_reread(last, keys, data) ==
    [k \in SourceKeys |-> IF k \in Range(keys) THEN hash(datastore[k]) ELSE last[k]]

\* `self.last_report_for_source[source_key] = data_to_send[source_key].hash` for
\* every key of `keys`.
RecordSent(last, keys, data) ==
    [k \in SourceKeys |-> IF k \in Range(keys) THEN hash(data[k]) ELSE last[k]]

\* Mutant: every terminal state counts as success.
BatchSucceeded_anyTerminal(state) == state \in TerminalStates

\* `batch_host_guest_report.state == AbstractVirtReport.STATE_FINISHED`
BatchSucceeded(state) == state = STATE_FINISHED

\* After the polling loop: record the batch when its report is FINISHED.  The batch
\* report and the job handle are not read again in this cycle.
finish_batch ==
    /\ pc = "finish_batch"
    /\ IF BatchSucceeded(batch_state)
       THEN /\ last_report_for_source' =
                   RecordSent(last_report_for_source, reports_batched, data_to_send)
            /\ sources_sent' = sources_sent \o reports_batched
       ELSE UNCHANGED <<last_report_for_source, sources_sent>>
    /\ failed_hash' =
           LET cause == IF batch_state \in {STATE_FAILED, STATE_CANCELED} THEN "state"
                        ELSE IF last_call.op = "hypervisorCheckIn"
                                /\ last_call.outcome = "ManagerError" THEN "error"
                        ELSE IF batch_state = STATE_FINISHED
                                /\ \E k \in Range(reports_batched) :
                                       hash(datastore[k]) # hash(data_to_send[k])
                             THEN "superseded"
                        ELSE IF batch_state # STATE_FINISHED /\ result = Falsy
                             THEN "unfinished"
                        ELSE "none"
           IN  IF cause # "none" /\ ~oneshot
               THEN [cause |-> cause,
                     hashes |-> [k \in SourceKeys |->
                                   IF k \in Range(reports_batched)
                                   THEN hash(data_to_send[k]) ELSE None],
                     handle |-> result]
               ELSE NoFailure
    /\ pc' = "sendVirtGuests"
    /\ result' = NoResult
    /\ batch_state' = STATE_CREATED
    /\ initial_job_check' = TRUE
    /\ last_call' = NoCall
    /\ slept' = 0
    /\ UNCHANGED <<configVars, otherVars, prepared, iteritems, delta_seconds, sharedVars, internal_terminate_event, source_keys,
                   interval_modifier, has_error, gd_idx, data_to_send, all_hypervisors,
                   domain_list_reports, reports_batched, sources_erred, dl_idx, waitVars,
                   inflight, batches, lr_before, calls_after_term>>

\* One pass of the loops over domain_list_reports: the call of
\* self.dest.sendVirtGuests for the current source and its handlers.
sendVirtGuests ==
    /\ pc = "sendVirtGuests"
    /\ IF dl_idx > Len(domain_list_reports)
       THEN /\ pc' = "end_send"
            /\ UNCHANGED <<localVars, last_report_for_source, has_error, waitVars,
                           last_call, slept, inflight, batches, calls_after_term>>
       ELSE IF print_
       THEN /\ dl_idx' = dl_idx + 1
            /\ UNCHANGED <<pc, last_report_for_source, has_error, waitVars, gd_idx,
                           data_to_send, all_hypervisors, domain_list_reports,
                           reports_batched, sources_sent, sources_erred, result,
                           batch_state, initial_job_check, last_call, slept, inflight,
                           batches, calls_after_term>>
       ELSE LET source_key == domain_list_reports[dl_idx]
            IN  /\ calls_after_term' = CountCall
                /\ \/ /\ sources_sent' = Append(sources_sent, source_key)
                      /\ last_report_for_source' =
                             RecordSent(last_report_for_source, <<source_key>>, data_to_send)
                      /\ dl_idx' = dl_idx + 1
                      /\ last_call' = Call("sendVirtGuests", "returned", 0, source_key)
                      /\ slept' = 0
                      /\ UNCHANGED <<pc, has_error, waitVars, sources_erred, inflight,
                                     batches, gd_idx, data_to_send, all_hypervisors,
                                     domain_list_reports, reports_batched, result,
                                     batch_state, initial_job_check>>
                   \/ \E retry_after \in RetryAfters :
                      /\ CallWait(retry_after, "sendVirtGuests")
                      /\ last_call' = Call("sendVirtGuests", "ManagerThrottleError",
                                           retry_after, source_key)
                      /\ slept' = 0
                      /\ UNCHANGED <<localVars, last_report_for_source, has_error,
                                     inflight, batches>>
                   \/ /\ sources_erred' = IF oneshot THEN Append(sources_erred, source_key)
                                                     ELSE sources_erred
                      /\ dl_idx' = dl_idx + 1
                      /\ last_call' = Call("sendVirtGuests", "ManagerError", 0, source_key)
                      /\ slept' = 0
                      /\ UNCHANGED <<pc, last_report_for_source, has_error, waitVars,
                                     sources_sent, inflight, batches, gd_idx, data_to_send,
                                     all_hypervisors, domain_list_reports, reports_batched,
                                     result, batch_state, initial_job_check>>
                   \/ /\ Raise
                      /\ UNCHANGED <<last_report_for_source, waitVars>>
    /\ UNCHANGED <<configVars, otherVars, prepared, iteritems, delta_seconds, sharedVars, internal_terminate_event, source_keys,
                   interval_modifier, lr_before, failed_hash>>

\* `all(source_key in sources_sent or source_key in sources_erred ...)`
AllDealtWith(keys, sent, erred) ==
    \A i \in DOMAIN keys : keys[i] \in Range(sent) \/ keys[i] \in Range(erred)

\* The tail of _send_data: one-shot termination and pruning of source_keys.
end_send ==
    /\ pc = "end_send"
    /\ internal_terminate_event' =
           IF AllDealtWith(source_keys, sources_sent, sources_erred) /\ oneshot
           THEN TRUE ELSE internal_terminate_event
    /\ source_keys' = IF oneshot THEN SelectKeys(source_keys, Range(sources_sent))
                                 ELSE source_keys
    /\ pc' = "_run_after"
    /\ ResetLocals
    /\ last_call' = NoCall
    /\ slept' = 0
    /\ batches' = 0
    /\ lr_before' = NoKeys
    /\ UNCHANGED <<configVars, otherVars, prepared, iteritems, delta_seconds, sharedVars, last_report_for_source, interval_modifier,
                   has_error, waitVars, inflight, failed_hash, calls_after_term>>

(***************************************************************************)
(* Specification.                                                          *)
(***************************************************************************)
Next ==
    \/ stop
    \/ set_terminate_event
    \/ Virt_send_data
    \/ run
    \/ prepare
    \/ _run
    \/ _get_data
    \/ _send_data
    \/ hypervisorCheckIn
    \/ checkin_retry
    \/ poll
    \/ check_report_state
    \/ finish_batch
    \/ sendVirtGuests
    \/ end_send
    \/ _run_after
    \/ run_end
    \/ _send_data_ErrorReport
    \/ wait

Spec == Init /\ [][Next]_vars

(***************************************************************************)
(* Satellite5DestinationThread: _send_data is overridden, the rest is the  *)
(* destination worker's.                                                    *)
(***************************************************************************)
\* The head of Satellite5DestinationThread._send_data.
Satellite5_send_data ==
    /\ pc = "_send_data"
    /\ IF data_to_send = <<>>
       THEN /\ pc' = "_run_after"
            /\ UNCHANGED <<iteritems, sources_sent, sources_erred>>
       ELSE /\ \E order \in Orders(DOMAIN data_to_send) : iteritems' = order
            /\ sources_sent' = <<>>
            /\ sources_erred' = <<>>
            /\ pc' = "Satellite5_for"
    /\ UNCHANGED <<configVars, otherVars, prepared, delta_seconds, sharedVars, internal_terminate_event,
                   source_keys, last_report_for_source, interval_modifier, has_error,
                   gd_idx, data_to_send, all_hypervisors, domain_list_reports,
                   reports_batched, result, batch_state, initial_job_check, dl_idx,
                   waitVars, historyVars>>

\* `all(source_key in sources_sent for source_key in self.source_keys)`
AllSent(keys, sent) == \A i \in DOMAIN keys : keys[i] \in Range(sent)

\* One iteration of `for source_key, report in data_to_send.iteritems()`, up to the
\* checkin of a HostGuestAssociationReport.
Satellite5_for ==
    /\ pc = "Satellite5_for"
    /\ IF iteritems = <<>>
       THEN /\ pc' = "Satellite5_end_send"
            /\ UNCHANGED <<iteritems, sources_sent, sources_erred>>
       ELSE LET source_key == Head(iteritems)
                report == data_to_send[source_key]
            IN  CASE report.type = "DomainListReport" ->
                       /\ sources_erred' = Append(sources_erred, source_key)
                       /\ iteritems' = Tail(iteritems)
                       /\ UNCHANGED <<pc, sources_sent>>
                  [] report.type = "HostGuestAssociationReport" ->
                       /\ pc' = "Satellite5_hypervisorCheckIn"
                       /\ UNCHANGED <<iteritems, sources_sent, sources_erred>>
                  [] report.type = "ErrorReport" ->
                       /\ sources_sent' = IF oneshot THEN Append(sources_sent, source_key)
                                                     ELSE sources_sent
                       /\ iteritems' = Tail(iteritems)
                       /\ UNCHANGED <<pc, sources_erred>>
    /\ UNCHANGED <<configVars, otherVars, prepared, delta_seconds, sharedVars, internal_terminate_event,
                   source_keys, last_report_for_source, interval_modifier, has_error,
                   gd_idx, data_to_send, all_hypervisors, domain_list_reports,
                   reports_batched, result, batch_state, initial_job_check, dl_idx,
                   waitVars, historyVars>>

\* Mutant: a successful checkin is not recorded.
Satellite5_RecordSent_skip(source_key, report) == last_report_for_source

\* `self.last_report_for_source[source_key] = report.hash` after the checkin.
Satellite5_RecordSent(source_key, report) ==
    [last_report_for_source EXCEPT ![source_key] = hash(report)]

\* `while result is None` of Satellite 5: the checkin of one report.  A throttle
\* sets interval_modifier and the call is repeated; ManagerError is not caught here
\* and leaves _run like any other exception.
Satellite5_hypervisorCheckIn ==
    /\ pc = "Satellite5_hypervisorCheckIn"
    /\ calls_after_term' = CountCall
    /\ LET source_key == Head(iteritems)
           report == data_to_send[source_key]
       IN  \/ /\ last_report_for_source' = Satellite5_RecordSent(source_key, report)
              /\ sources_sent' = Append(sources_sent, source_key)
              /\ iteritems' = Tail(iteritems)
              /\ pc' = "Satellite5_for"
              /\ last_call' = Call("hypervisorCheckIn", "returned", 0, association(report))
              /\ UNCHANGED <<interval_modifier, sources_erred, has_error, gd_idx,
                             data_to_send, all_hypervisors, domain_list_reports,
                             reports_batched, result, batch_state, initial_job_check,
                             dl_idx, slept, inflight, batches>>
           \/ \E retry_after \in RetryAfters :
                /\ interval_modifier' = retry_after
                /\ last_call' = Call("hypervisorCheckIn", "ManagerThrottleError",
                                     retry_after, association(report))
                /\ UNCHANGED <<pc, iteritems, last_report_for_source, sources_sent,
                               sources_erred, has_error, gd_idx, data_to_send,
                               all_hypervisors, domain_list_reports, reports_batched,
                               result, batch_state, initial_job_check, dl_idx, slept,
                               inflight, batches>>
           \/ /\ sources_erred' = Append(sources_erred, source_key)
              /\ iteritems' = Tail(iteritems)
              /\ pc' = "Satellite5_for"
              /\ last_call' = Call("hypervisorCheckIn", "ManagerFatalError", 0,
                                   association(report))
              /\ UNCHANGED <<interval_modifier, last_report_for_source, sources_sent,
                             has_error, gd_idx, data_to_send, all_hypervisors,
                             domain_list_reports, reports_batched, result, batch_state,
                             initial_job_check, dl_idx, slept, inflight, batches>>
           \/ /\ Raise
              /\ iteritems' = <<>>
              /\ UNCHANGED <<interval_modifier, last_report_for_source>>
    /\ UNCHANGED <<configVars, otherVars, prepared, delta_seconds, sharedVars, internal_terminate_event,
                   source_keys, waitVars, lr_before, failed_hash>>

\* The tail of Satellite5DestinationThread._send_data: one-shot termination and
\* pruning of source_keys.
Satellite5_end_send ==
    /\ pc = "Satellite5_end_send"
    /\ internal_terminate_event' =
           IF AllSent(source_keys, sources_sent) /\ oneshot
           THEN TRUE ELSE internal_terminate_event
    /\ source_keys' = IF oneshot THEN SelectKeys(source_keys, Range(sources_sent))
                                 ELSE source_keys
    /\ pc' = "_run_after"
    /\ ResetLocals
    /\ last_call' = NoCall
    /\ UNCHANGED <<configVars, otherVars, prepared, iteritems, delta_seconds, sharedVars,
                   last_report_for_source, interval_modifier, has_error, waitVars,
                   slept, inflight, batches, lr_before, failed_hash, calls_after_term>>

NextSat5 ==
    \/ stop
    \/ set_terminate_event
    \/ Virt_send_data
    \/ run
    \/ prepare
    \/ _run
    \/ _get_data
    \/ Satellite5_send_data
    \/ Satellite5_for
    \/ Satellite5_hypervisorCheckIn
    \/ Satellite5_end_send
    \/ _run_after
    \/ run_end
    \/ _send_data_ErrorReport
    \/ wait

SpecSat5 == Init /\ [][NextSat5]_vars

(***************************************************************************)
(* A source worker (class Virt) step by step.  It shares run, _run, wait   *)
(* and the terminate events with the destination worker; data_to_send is  *)
(* the report its _get_data gathered.                                      *)
(***************************************************************************)
InitVirt ==
    /\ terminate_event = FALSE
    /\ internal_terminate_event = FALSE
    /\ oneshot \in BOOLEAN
    /\ print_ = FALSE
    /\ isHypervisor \in [SourceKeys -> BOOLEAN]
    /\ config \in SourceKeys
    /\ datastore = [k \in SourceKeys |-> NotSetSentinel]
    /\ source_keys = <<>>
    /\ last_report_for_source = NoKeys
    /\ interval_modifier = 0
    /\ pc = "run"
    /\ has_error = FALSE
    /\ gd_idx = 1
    /\ data_to_send = <<>>
    /\ all_hypervisors = <<>>
    /\ domain_list_reports = <<>>
    /\ reports_batched = <<>>
    /\ sources_sent = <<>>
    /\ sources_erred = <<>>
    /\ result = NoResult
    /\ batch_state = STATE_CREATED
    /\ initial_job_check = TRUE
    /\ dl_idx = 1
    /\ iteritems = <<>>
    /\ wait_left = 0
    /\ wait_ret = NoWait
    /\ delta_seconds = 0
    /\ last_call = NoCall
    /\ slept = 0
    /\ inflight = FALSE
    /\ batches = 0
    /\ lr_before = NoKeys
    /\ failed_hash = NoFailure
    /\ calls_after_term = 0
    /\ prepared = FALSE
    /\ reports_to_print = <<>>
    /\ ExecutorIdle
    /\ OptionsIdle
    /\ ReportsIdle
    /\ WorkersIdle

\* self.prepare() of a virt backend: it may raise VirtError or another exception.
Virt_prepare ==
    /\ pc = "prepare"
    /\ prepared' = TRUE
    /\ \/ /\ pc' = "_run"
          /\ UNCHANGED <<has_error, localVars, last_call, slept, inflight, batches>>
       \/ Raise
    /\ UNCHANGED <<configVars, otherVars, iteritems, delta_seconds, sharedVars, internal_terminate_event,
                   source_keys, last_report_for_source, interval_modifier, waitVars,
                   lr_before, failed_hash, calls_after_term>>

\* Virt._get_data: the report of _get_report(), or VirtError or another exception.
Virt__get_data ==
    /\ pc = "_get_data"
    /\ \/ \E report \in _get_report(config, isHypervisor[config]) :
            /\ data_to_send' = report
            /\ pc' = "_send_data"
            /\ UNCHANGED <<has_error, gd_idx, all_hypervisors, domain_list_reports,
                           reports_batched, sources_sent, sources_erred, result,
                           batch_state, initial_job_check, dl_idx, last_call, slept,
                           inflight, batches>>
       \/ Raise
    /\ UNCHANGED <<configVars, otherVars, prepared, iteritems, delta_seconds, sharedVars, internal_terminate_event,
                   source_keys, last_report_for_source, interval_modifier, waitVars,
                   lr_before, failed_hash, calls_after_term>>

\* Virt._send_data: sys.exit(0) when terminated, else put the report under
\* config.name.
Virt__send_data ==
    /\ pc = "_send_data"
    /\ IF is_terminated
       THEN /\ pc' = "exited"
            /\ UNCHANGED <<datastore, data_to_send>>
       ELSE /\ datastore' = put(datastore, config, data_to_send)
            /\ data_to_send' = <<>>
            /\ pc' = "_run_after"
    /\ UNCHANGED <<configVars, otherVars, prepared, iteritems, delta_seconds, terminate_event,
                   internal_terminate_event, source_keys, last_report_for_source,
                   interval_modifier, has_error, gd_idx, all_hypervisors,
                   domain_list_reports, reports_batched, sources_sent, sources_erred,
                   result, batch_state, initial_job_check, dl_idx, waitVars,
                   historyVars>>

\* Virt._send_data called by run() with the ErrorReport of a failed one-shot cycle.
Virt__send_data_ErrorReport ==
    /\ pc = "_send_data(ErrorReport)"
    /\ IF is_terminated
       THEN /\ pc' = "exited"
            /\ UNCHANGED <<datastore, internal_terminate_event>>
       ELSE /\ datastore' = put(datastore, config, data_to_send)
            /\ run_stopped
    /\ UNCHANGED <<configVars, otherVars, prepared, iteritems, delta_seconds, terminate_event, source_keys,
                   last_report_for_source, interval_modifier, has_error, localVars,
                   waitVars, historyVars>>

NextVirt ==
    \/ stop
    \/ set_terminate_event
    \/ Virt_send_data
    \/ run
    \/ Virt_prepare
    \/ _run
    \/ Virt__get_data
    \/ Virt__send_data
    \/ _run_after
    \/ run_end
    \/ Virt__send_data_ErrorReport
    \/ wait

SpecVirt == InitVirt /\ [][NextVirt]_vars

(***************************************************************************)
(* Executor: wait_on_threads and terminate_threads.  The Executor's code   *)
(* is not among the sources; these definitions follow section 4.6 of the   *)
(* specification and the mock workers of TestExecutor.                     *)
(***************************************************************************)
MaxThreads == 2        \* most workers handed to a method of the Executor
MaxPolls == 3          \* latest poll on which a worker's is_terminated() turns true
MaxWait == 2           \* largest max_wait given to wait_on_threads

workerVars == <<configVars, sharedVars, threadVars, localVars, iteritems, waitVars,
                delta_seconds, historyVars, prepared, reports_to_print, optionVars,
                reportVars, workers_pc, workers, stop_called>>

\* A worker as the Executor sees it: is_terminated() returns True from its
\* becomes_true-th call on (Mock(side_effect=[False, ..., True])).
Thread(becomes_true) ==
    [becomes_true |-> becomes_true, polls |-> 0, stop_calls |-> 0,
     internal_terminate_event |-> FALSE, joined |-> FALSE]

ThreadLists ==
    UNION {[1..n -> {Thread(b) : b \in 1..MaxPolls}] : n \in 0..MaxThreads}

Indices(list) == [i \in 1..Len(list) |-> i]

\* thread.is_terminated(): the answer of the call that follows `polls` calls.
Thread_is_terminated(thread) == thread.polls + 1 >= thread.becomes_true

\* Mutant: stop() leaves the worker's event alone.
IntervalThread_stop_noop(thread) == [thread EXCEPT !.stop_calls = 1]

\* IntervalThread.stop(): self._internal_terminate_event.set()
IntervalThread_stop(thread) ==
    [thread EXCEPT !.internal_terminate_event = TRUE, !.stop_calls = 1]

Thread_join(thread) == [thread EXCEPT !.joined = TRUE]

\* Mutant: a missing max_wait counts as one that has elapsed.
Expired_whenNotGiven(limit, waited) == ~limit.given \/ waited >= limit.seconds

\* max_wait has elapsed.
Expired(limit, waited) == limit.given /\ waited >= limit.seconds

\* Executor.wait_on_threads(threads, max_wait, kill_on_expiry) is called.
wait_on_threads ==
    /\ executor_pc = "idle"
    /\ \E list \in ThreadLists :
          /\ threads' = list
          /\ threads_not_terminated' = Indices(list)
    /\ max_wait' \in {NoMaxWait} \cup {MaxWaitOf(n) : n \in 0..MaxWait}
    /\ kill_on_expiry' \in BOOLEAN
    /\ total_waited' = 0
    /\ executor_pc' = "wait_on_threads"
    /\ UNCHANGED <<workerVars, sleep_calls, terminate_threads_called, to_terminate, retval>>

\* One polling round of wait_on_threads: every worker still waited for is asked
\* is_terminated() once; the method returns when none is left, handles the expiry
\* of max_wait, or goes to sleep.
wait_on_threads_poll ==
    /\ executor_pc = "wait_on_threads"
    /\ LET polled == Range(threads_not_terminated)
           live == SelectSeq(threads_not_terminated,
                             LAMBDA i : ~Thread_is_terminated(threads[i]))
       IN  /\ threads' = [i \in DOMAIN threads |->
                             IF i \in polled
                             THEN [threads[i] EXCEPT !.polls = @ + 1]
                             ELSE threads[i]]
           /\ threads_not_terminated' = live
           /\ IF live = <<>>
              THEN /\ executor_pc' = "returned"
                   /\ retval' = <<>>
                   /\ UNCHANGED <<terminate_threads_called, to_terminate>>
              ELSE IF Expired(max_wait, total_waited)
              THEN IF kill_on_expiry
                   THEN /\ executor_pc' = "terminate_threads"
                        /\ terminate_threads_called' = TRUE
                        /\ to_terminate' = live
                        /\ UNCHANGED retval
                   ELSE /\ executor_pc' = "returned"
                        /\ retval' = live
                        /\ UNCHANGED <<terminate_threads_called, to_terminate>>
              ELSE /\ executor_pc' = "time.sleep"
                   /\ UNCHANGED <<terminate_threads_called, to_terminate, retval>>
    /\ UNCHANGED <<workerVars, max_wait, kill_on_expiry, total_waited, sleep_calls>>

\* time.sleep(1) between two polling rounds.
time_sleep ==
    /\ executor_pc = "time.sleep"
    /\ sleep_calls' = Append(sleep_calls, 1)
    /\ total_waited' = total_waited + 1
    /\ executor_pc' = "wait_on_threads"
    /\ UNCHANGED <<workerVars, threads, threads_not_terminated, max_wait, kill_on_expiry,
                   terminate_threads_called, to_terminate, retval>>

\* Executor.terminate_threads(threads) is called.
terminate_threads ==
    /\ executor_pc = "idle"
    /\ \E list \in ThreadLists :
          /\ threads' = list
          /\ to_terminate' = Indices(list)
    /\ terminate_threads_called' = TRUE
    /\ executor_pc' = "terminate_threads"
    /\ UNCHANGED <<workerVars, threads_not_terminated, max_wait, kill_on_expiry,
                   total_waited, sleep_calls, retval>>

\* terminate_threads: thread.stop() of the next worker, or the return.
terminate_threads_stop ==
    /\ executor_pc = "terminate_threads"
    /\ IF to_terminate = <<>>
       THEN /\ executor_pc' = "returned"
            /\ UNCHANGED threads
       ELSE /\ threads' = [threads EXCEPT ![Head(to_terminate)] = IntervalThread_stop(@)]
            /\ executor_pc' = "thread.join"
    /\ UNCHANGED <<workerVars, threads_not_terminated, max_wait, kill_on_expiry,
                   total_waited, sleep_calls, terminate_threads_called, to_terminate,
                   retval>>

\* terminate_threads: thread.join() of the worker just stopped.
terminate_threads_join ==
    /\ executor_pc = "thread.join"
    /\ threads' = [threads EXCEPT ![Head(to_terminate)] = Thread_join(@)]
    /\ to_terminate' = Tail(to_terminate)
    /\ executor_pc' = "terminate_threads"
    /\ UNCHANGED <<workerVars, threads_not_terminated, max_wait, kill_on_expiry,
                   total_waited, sleep_calls, terminate_threads_called, retval>>

InitExecutor ==
    /\ Init
    /\ oneshot = FALSE
    /\ print_ = FALSE
    /\ isHypervisor = [k \in SourceKeys |-> FALSE]

NextExecutor ==
    \/ wait_on_threads
    \/ wait_on_threads_poll
    \/ time_sleep
    \/ terminate_threads
    \/ terminate_threads_stop
    \/ terminate_threads_join

SpecExecutor == InitExecutor /\ [][NextExecutor]_vars

(***************************************************************************)
(* Option resolution and the interval of a worker.  parseOptions is not    *)
(* among the sources; it follows sections 4.2 and 6 of the specification   *)
(* and TestOptions.  An integer option that is not given is 0, the value   *)
(* Python's `or` skips.                                                    *)
(***************************************************************************)
MinimumSendInterval == 60
DefaultInterval == 3600

\* The values an interval is configured with.
IntervalInputs == {1, 5, 59, 60, 61}

\* Python's `a or b`.
Or(a, b) == IF a # 0 THEN a ELSE b

\* Values below the minimum are raised to it.
ClampInterval(configured) ==
    IF configured < MinimumSendInterval THEN MinimumSendInterval ELSE configured

\* The four-layer merge: defaults < file < environment < command line.
ResolveInterval(cli, env, file) == ClampInterval(Or(cli, Or(env, Or(file, DefaultInterval))))

\* Mutant: the worker prefers the interval of its configuration.
IntervalThread_interval_configFirst(given, of_config) ==
    Or(of_config, Or(given, DefaultInterval))

\* self.interval = interval or config.interval or DefaultInterval
IntervalThread_interval(given, of_config) == Or(given, Or(of_config, DefaultInterval))

\* parseOptions() with the interval given on any of the three channels.
parseOptions ==
    /\ options_pc = "idle"
    /\ cli_interval' \in {0} \cup IntervalInputs
    /\ env_interval' \in {0} \cup IntervalInputs
    /\ file_interval' \in {0} \cup IntervalInputs
    /\ options_interval' = ResolveInterval(cli_interval', env_interval', file_interval')
    /\ options_pc' = "parsed"
    /\ UNCHANGED <<configVars, sharedVars, threadVars, localVars, iteritems, waitVars,
                   delta_seconds, historyVars, prepared, reports_to_print, executorVars,
                   reportVars, workers_pc, workers, stop_called, config_interval, self_interval>>

\* The Executor constructs a worker and injects the resolved interval.
IntervalThread_init ==
    /\ options_pc = "parsed"
    /\ config_interval' \in {0} \cup IntervalInputs
    /\ self_interval' = IntervalThread_interval(options_interval, config_interval')
    /\ options_pc' = "constructed"
    /\ UNCHANGED <<configVars, sharedVars, threadVars, localVars, iteritems, waitVars,
                   delta_seconds, historyVars, prepared, reports_to_print, executorVars,
                   reportVars, workers_pc, workers, stop_called, cli_interval, env_interval, file_interval,
                   options_interval>>

NextOptions ==
    \/ parseOptions
    \/ IntervalThread_init

SpecOptions == InitExecutor /\ [][NextOptions]_vars

(***************************************************************************)
(* Content hashes and the effective association of constructed reports.    *)
(***************************************************************************)
MaxGuests == 2         \* longest guest list of a hypervisor or a domain list
MaxHypervisors == 2    \* longest association

SeqsUpTo(S, n) == UNION {[1..k -> S] : k \in 0..n}

\* The same elements in every order.
Reorderings(list) ==
    {[i \in DOMAIN list |-> list[order[i]]] : order \in Orders(DOMAIN list)}

GuestChoices == {Guest(uuid, state) : uuid \in 1..2, state \in {STATE_RUNNING, STATE_SHUTOFF}}

FactsChoices ==
    {NoFacts, Facts(<<>>), Facts(<<<<HYPERVISOR_TYPE_FACT, 1>>, <<CPU_SOCKET_FACT, 2>>>>)}

HypervisorChoices ==
    {HypervisorWithFacts(1, guestIds, facts) :
        guestIds \in SeqsUpTo(GuestChoices, MaxGuests), facts \in FactsChoices}

\* The hypervisors of the associations: two of them carry the same id.
AssociationHypervisors ==
    {Hypervisor(1, <<>>),
     HypervisorWithFacts(1, <<Guest(1, STATE_RUNNING)>>,
                         Facts(<<<<HYPERVISOR_TYPE_FACT, 1>>, <<CPU_SOCKET_FACT, 2>>>>)),
     Hypervisor(2, <<Guest(2, STATE_SHUTOFF), Guest(1, STATE_RUNNING)>>)}

ExcludeChoices ==
    {NoPatterns, Patterns(<<1>>), Patterns(<<3, 1>>), Patterns(<<Star>>), Patterns(<<DotStar>>)}
FilterChoices == {NoPatterns, Patterns(<<>>), Patterns(<<2>>)}

\* The hypervisors that differ from h in the order of the guests and of the facts.
HypervisorReorderings(h) ==
    {HypervisorWithFacts(h.hypervisorId, guestIds, [h.facts EXCEPT !.items = items]) :
        guestIds \in Reorderings(h.guestIds), items \in Reorderings(h.facts.items)}

\* The lists whose i-th hypervisor is a reordering of the i-th of `list`.
RECURSIVE EachReordered(_)
EachReordered(list) ==
    IF list = <<>> THEN {<<>>}
    ELSE {<<h>> \o rest : h \in HypervisorReorderings(Head(list)),
                          rest \in EachReordered(Tail(list))}

AssociationReorderings(assoc) == UNION {EachReordered(list) : list \in Reorderings(assoc)}

nonReportVars == <<configVars, sharedVars, threadVars, localVars, iteritems, waitVars,
                   delta_seconds, historyVars, prepared, reports_to_print, executorVars,
                   optionVars>>

Constructed(a, b) ==
    /\ report_a' = a
    /\ report_b' = b
    /\ report_pc' = "constructed"
    /\ UNCHANGED <<nonReportVars, workers_pc, workers, stop_called, hash_a, hash_b, effective,
                   hash_unfiltered>>

\* Two Hypervisor objects are constructed.
new_Hypervisor ==
    /\ report_pc = "idle"
    /\ \E h \in HypervisorChoices : \E other \in HypervisorReorderings(h) :
          Constructed(h, other)

\* Two DomainListReport objects are constructed.
new_DomainListReport ==
    /\ report_pc = "idle"
    /\ \E guests \in SeqsUpTo(GuestChoices, MaxGuests) : \E other \in Reorderings(guests) :
          Constructed(DomainListReport("A", guests), DomainListReport("A", other))

\* Two HostGuestAssociationReport objects are constructed.
new_HostGuestAssociationReport ==
    /\ report_pc = "idle"
    /\ \E assoc \in SeqsUpTo(AssociationHypervisors, MaxHypervisors) :
       \E other \in AssociationReorderings(assoc) :
       \E exclude_hosts \in ExcludeChoices : \E filter_hosts \in FilterChoices :
          Constructed(HostGuestAssociationReport("A", assoc, exclude_hosts, filter_hosts),
                      HostGuestAssociationReport("A", other, exclude_hosts, filter_hosts))

ContentHash(object) == IF "type" \in DOMAIN object THEN hash(object) ELSE getHash(object)

\* The hashes of both objects are taken, and the association of a
\* HostGuestAssociationReport is read.
take_hash ==
    /\ report_pc = "constructed"
    /\ hash_a' = ContentHash(report_a)
    /\ hash_b' = ContentHash(report_b)
    /\ IF "assoc" \in DOMAIN report_a
       THEN /\ effective' = association(report_a)
            /\ hash_unfiltered' =
                   hash(HostGuestAssociationReport(report_a.config, report_a.assoc,
                                                   NoPatterns, NoPatterns))
       ELSE UNCHANGED <<effective, hash_unfiltered>>
    /\ report_pc' = "hashed"
    /\ UNCHANGED <<nonReportVars, workers_pc, workers, stop_called, report_a, report_b>>

NextReport ==
    \/ new_Hypervisor
    \/ new_DomainListReport
    \/ new_HostGuestAssociationReport
    \/ take_hash

SpecReport == InitExecutor /\ [][NextReport]_vars

(***************************************************************************)
(* The worker set and its terminate events: every worker owns an Event,    *)
(* and is_terminated() also consults the Event given at construction.      *)
(***************************************************************************)
Workers == SourceKeys \cup {DestinationConfig}

\* IntervalThread.__init__: a fresh Event of the worker's own; `given` tells
\* whether a terminate_event was passed (else self.terminate_event is the
\* worker's own Event).
IntervalThread(given) ==
    [internal_terminate_event |-> FALSE, terminate_event_given |-> given,
     returned |-> FALSE]

\* self.terminate_event.is_set()
Worker_terminate_event(worker, shared) ==
    IF worker.terminate_event_given THEN shared ELSE worker.internal_terminate_event

\* IntervalThread.is_terminated()
Worker_is_terminated(worker, shared) ==
    worker.internal_terminate_event \/ Worker_terminate_event(worker, shared)

\* Mutant: the Event that stop() sets is one Event of all the workers.
Worker_stop_all(set, w) ==
    [v \in DOMAIN set |-> [set[v] EXCEPT !.internal_terminate_event = TRUE]]

\* IntervalThread.stop() of worker w: self._internal_terminate_event.set()
Worker_stop(set, w) == [set EXCEPT ![w].internal_terminate_event = TRUE]

\* The workers are constructed, each with or without the shared terminate_event.
new_IntervalThread ==
    /\ workers_pc = "idle"
    /\ \E given \in [Workers -> BOOLEAN] :
          workers' = [w \in Workers |-> IntervalThread(given[w])]
    /\ workers_pc' = "started"
    /\ stop_called' = {}
    /\ UNCHANGED <<nonReportVars, reportVars>>

\* stop() is called on one worker, whether or not it was called before.
IntervalThread_stop_call ==
    /\ workers_pc = "started"
    /\ \E w \in Workers :
          /\ workers' = Worker_stop(workers, w)
          /\ stop_called' = {w}
    /\ UNCHANGED <<workers_pc, nonReportVars, reportVars>>

\* The owner of the worker set sets the shared terminate event.
terminate_event_set ==
    /\ workers_pc = "started"
    /\ terminate_event' = TRUE
    /\ stop_called' = {}
    /\ UNCHANGED <<workers_pc, workers, configVars, datastore, threadVars, localVars,
                   iteritems, waitVars, delta_seconds, historyVars, prepared,
                   reports_to_print, executorVars, optionVars, reportVars>>

\* run() of one worker finds is_terminated(), sets its own Event and returns.
run_terminated ==
    /\ workers_pc = "started"
    /\ \E w \in Workers :
          /\ ~workers[w].returned
          /\ Worker_is_terminated(workers[w], terminate_event)
          /\ workers' = [workers EXCEPT ![w].internal_terminate_event = TRUE,
                                        ![w].returned = TRUE]
    /\ stop_called' = {}
    /\ UNCHANGED <<workers_pc, nonReportVars, reportVars>>

NextWorkers ==
    \/ new_IntervalThread
    \/ IntervalThread_stop_call
    \/ terminate_event_set
    \/ run_terminated

SpecWorkers == InitExecutor /\ [][NextWorkers]_vars

(***************************************************************************)
(* Properties.                                                             *)
(***************************************************************************)
BatchedKeys == Range(reports_batched)

\* The destination worker is about to call sendVirtGuests for source_key.
AboutToSendVirtGuests(source_key) ==
    /\ pc = "sendVirtGuests"
    /\ ~print_
    /\ dl_idx <= Len(domain_list_reports)
    /\ domain_list_reports[dl_idx] = source_key

\* C1: once the terminate flag is set or stop() was called, the worker starts no new
\* work and completes at most the one outbound manager call that was in flight: it
\* never makes a second outbound call while is_terminated() holds, whatever the
\* manager answers.
C1_AtMostOneCallOnceTerminated == calls_after_term <= 1

\* C2: no outbound call includes the report of a source key whose hash equals the
\* last-sent hash recorded for that key; a report that is such a duplicate is not
\* selected by _get_data, and a cycle that selected nothing makes no outbound call
\* and leaves last_report_for_source unchanged.
C2_NoDuplicateIsSent ==
    /\ [](pc = "hypervisorCheckIn" =>
            \A k \in BatchedKeys : hash(data_to_send[k]) # last_report_for_source[k])
    /\ [](\A k \in SourceKeys : AboutToSendVirtGuests(k) =>
            hash(data_to_send[k]) # last_report_for_source[k])
    /\ [][/\ (pc = "_get_data" /\ (pc' # pc \/ gd_idx' # gd_idx)) =>
               LET k == source_keys[gd_idx]
               IN  (datastore[k] # NotSetSentinel
                    /\ hash(datastore[k]) = last_report_for_source[k])
                   => k \notin DOMAIN data_to_send'
          /\ (pc = "_send_data" /\ pc' # pc /\ data_to_send = <<>>) =>
               /\ pc' = "_run_after"
               /\ last_report_for_source' = last_report_for_source
               /\ last_call' = NoCall]_vars

\* A cycle in which every available report was a duplicate reached _send_data.
C2_Witness ==
    /\ pc = "_send_data"
    /\ data_to_send = <<>>
    /\ \A k \in SourceKeys :
          /\ datastore[k] # NotSetSentinel
          /\ hash(datastore[k]) = last_report_for_source[k]

\* C3: when the batch report is FINISHED after the polling loop, the worker records
\* for every batched source key the hash of the report read for it in this cycle's
\* _get_data, and marks the key as sent.
C3_FinishedBatchIsRecorded ==
    [][/\ (pc = "poll" /\ pc' # pc /\ batch_state = STATE_FINISHED) => pc' = "finish_batch"
       /\ (pc = "finish_batch" /\ pc' # pc /\ batch_state = STATE_FINISHED) =>
             \A k \in BatchedKeys :
                /\ last_report_for_source'[k] = hash(data_to_send[k])
                /\ k \in Range(sources_sent')]_vars

\* A FINISHED batch was recorded although its source has republished meanwhile.
C3_Witness ==
    /\ pc = "sendVirtGuests"
    /\ \E k \in BatchedKeys :
          /\ k \in Range(sources_sent)
          /\ last_report_for_source[k] = hash(data_to_send[k])
          /\ hash(datastore[k]) # hash(data_to_send[k])

\* The latest outbound call of the cycle.
LastCallWas(op, outcome) == last_call.op = op /\ last_call.outcome = outcome

\* A wait(n) since the latest outbound call has run to its end: n one-second sleeps,
\* or fewer when the worker was terminated.
WaitedFor(n) == slept = n \/ (is_terminated /\ slept < n)

\* The worker itself takes a step from position p.
StepFrom(p) ==
    /\ pc = p
    /\ \/ pc' # pc
       \/ gd_idx' # gd_idx
       \/ dl_idx' # dl_idx
       \/ last_call'.op # last_call.op
       \/ last_call'.outcome # last_call.outcome
       \/ last_call'.retry_after # last_call.retry_after

HostGuestKeys ==
    {k \in DOMAIN data_to_send : data_to_send[k].type = "HostGuestAssociationReport"}
DomainListKeys ==
    {k \in DOMAIN data_to_send : data_to_send[k].type = "DomainListReport"}

\* The report of a batch that was not recorded is, if still in the datastore,
\* selected again by _get_data and batched again by _send_data, and the batch is
\* submitted when that report has a hypervisor; `unrecorded` tells which batches
\* are meant.
RetriedWhen(unrecorded) ==
    /\ (unrecorded /\ StepFrom("_get_data")) =>
          LET k == source_keys[gd_idx]
          IN  (failed_hash.hashes[k] # None /\ hash(datastore[k]) = failed_hash.hashes[k])
              => (k \in DOMAIN data_to_send' /\ data_to_send'[k] = datastore[k])
    /\ (unrecorded /\ StepFrom("_send_data")) =>
          \A k \in DOMAIN data_to_send :
             hash(data_to_send[k]) = failed_hash.hashes[k] =>
                /\ k \in Range(reports_batched')
                /\ association(data_to_send[k]) # <<>> =>
                      /\ pc' = "hypervisorCheckIn"
                      /\ Range(association(data_to_send[k])) \subseteq Range(all_hypervisors')

\* The same for the batches that were not recorded for `cause`.
RetriedNextCycle(cause) == RetriedWhen(failed_hash.cause = cause)

\* C4: when a batch ends FAILED or CANCELED the last-sent hashes are left unchanged,
\* and in the next cycle of a long-running worker the unchanged reports are selected
\* by _get_data and submitted again.
C4_FailedBatchIsRetried ==
    [][/\ (StepFrom("finish_batch") /\ batch_state \in {STATE_FAILED, STATE_CANCELED}) =>
             last_report_for_source' = last_report_for_source
       /\ RetriedNextCycle("state")]_vars

\* The report of a batch that ended FAILED or CANCELED was selected again.
C4_Witness ==
    /\ pc = "_send_data"
    /\ failed_hash.cause = "state"
    /\ \E k \in DOMAIN data_to_send : hash(data_to_send[k]) = failed_hash.hashes[k]

\* C5: at most one batch checkin is in flight: hypervisorCheckIn is never invoked
\* while a batch with a job handle is neither terminal nor abandoned (by a manager
\* error, or by an exception that ended the cycle); while one is in flight the
\* worker is in the polling loop.
C5_OneBatchInFlight ==
    /\ pc = "hypervisorCheckIn" => ~inflight
    /\ inflight =>
          /\ pc \in {"poll", "check_report_state", "wait"}
          /\ pc = "wait" => wait_ret = "check_report_state"

\* A new batch is about to be submitted for a source whose earlier batch finished.
C5_Witness ==
    /\ pc = "hypervisorCheckIn"
    /\ \E k \in BatchedKeys : last_report_for_source[k] # None

\* C6: when hypervisorCheckIn raises ManagerThrottleError(retry_after) the worker sets
\* interval_modifier to retry_after, waits that many one-second steps (fewer when
\* terminated), resets interval_modifier to 0 and calls hypervisorCheckIn again with
\* the same batch, with no other outbound call in between.
C6_ThrottledCheckInIsRetried ==
    /\ [][/\ (StepFrom("hypervisorCheckIn")
              /\ last_call'.outcome = "ManagerThrottleError") =>
                /\ interval_modifier' = last_call'.retry_after
                /\ last_call'.retry_after = 0 => pc' = "checkin_retry"
                /\ last_call'.retry_after # 0 =>
                      /\ pc' = "wait"
                      /\ wait_left' = last_call'.retry_after
                      /\ wait_ret' = "checkin_retry"
          /\ StepFrom("checkin_retry") =>
                /\ pc' = "hypervisorCheckIn"
                /\ interval_modifier' = 0
                /\ all_hypervisors' = all_hypervisors]_vars
    /\ []((pc = "wait" /\ wait_ret = "checkin_retry") =>
             /\ LastCallWas("hypervisorCheckIn", "ManagerThrottleError")
             /\ interval_modifier = last_call.retry_after
             /\ slept + wait_left = last_call.retry_after)
    /\ [](pc = "checkin_retry" =>
             /\ LastCallWas("hypervisorCheckIn", "ManagerThrottleError")
             /\ WaitedFor(last_call.retry_after))
    /\ []((pc = "hypervisorCheckIn" /\ last_call # NoCall) =>
             /\ LastCallWas("hypervisorCheckIn", "ManagerThrottleError")
             /\ last_call.arg = all_hypervisors
             /\ interval_modifier = 0
             /\ WaitedFor(last_call.retry_after))

\* The checkin is about to be retried after a full wait of the longest retry_after.
C6_Witness ==
    /\ pc = "hypervisorCheckIn"
    /\ LastCallWas("hypervisorCheckIn", "ManagerThrottleError")
    /\ last_call.retry_after = MaxRetryAfter
    /\ slept = MaxRetryAfter
    /\ ~is_terminated

\* C7: when hypervisorCheckIn raises ManagerError or ManagerFatalError the batch is
\* abandoned: no retry and no check_report_state in this cycle, the last-sent hashes
\* of the batched sources unchanged (so a long-running worker selects and submits
\* them again), and under one-shot every batched source key marked erred.
C7_CheckInErrorAbandonsBatch ==
    /\ [][/\ (StepFrom("hypervisorCheckIn") /\ last_call'.outcome = "ManagerError") =>
                /\ pc' = "poll"
                /\ result' = NoResult
                /\ last_report_for_source' = last_report_for_source
                /\ oneshot => BatchedKeys \subseteq Range(sources_erred')
          /\ (LastCallWas("hypervisorCheckIn", "ManagerError") /\ StepFrom("poll")) =>
                pc' = "finish_batch"
          /\ (LastCallWas("hypervisorCheckIn", "ManagerError") /\ StepFrom("finish_batch")) =>
                /\ pc' = "sendVirtGuests"
                /\ last_report_for_source' = last_report_for_source
          /\ (StepFrom("sendVirtGuests") \/ StepFrom("end_send")) =>
                /\ pc' \in {"sendVirtGuests", "end_send", "wait", "run_end", "_run_after"}
                /\ pc' = "wait" => wait_ret' = "sendVirtGuests"
                /\ \A k \in BatchedKeys :
                      last_report_for_source'[k] = last_report_for_source[k]
          /\ RetriedNextCycle("error")]_vars
    /\ [](LastCallWas("hypervisorCheckIn", "ManagerError") =>
             /\ pc \in {"poll", "finish_batch"}
             /\ \A k \in BatchedKeys : last_report_for_source[k] = lr_before[k])

\* Under one-shot a checkin ended with a manager error and its sources are erred.
C7_Witness ==
    /\ pc = "poll"
    /\ oneshot
    /\ LastCallWas("hypervisorCheckIn", "ManagerError")
    /\ Len(reports_batched) = 2
    /\ BatchedKeys \subseteq Range(sources_erred)

\* What precedes a call of check_report_state: a job handle, a state that is not
\* terminal, and the wait since the previous call, where a check throttled with
\* retry_after = 0 is followed by a wait of zero_wait seconds.
PollOrdering(zero_wait) ==
    pc = "check_report_state" =>
    /\ result = JobHandle
    /\ batch_state \notin TerminalStates
    /\ interval_modifier = 0
    /\ last_call.op \in {"hypervisorCheckIn", "check_report_state"}
    /\ last_call.op = "hypervisorCheckIn" =>
          last_call.outcome = "returned" /\ slept = 0
    /\ LastCallWas("check_report_state", "returned") => WaitedFor(PollingInterval)
    /\ LastCallWas("check_report_state", "ManagerThrottleError") =>
          WaitedFor(IF last_call.retry_after # 0 THEN last_call.retry_after
                    ELSE zero_wait)
    /\ last_call.outcome # "ManagerError"
    /\ inflight

\* C8 as stated: the first check_report_state after hypervisorCheckIn returned a job
\* handle is made without waiting; every later one follows a wait of
\* polling_interval, or of retry_after when the previous check raised
\* ManagerThrottleError, with interval_modifier cleared; polling stops once the
\* state is terminal.
C8_AsStated == PollOrdering(0)

\* C8, amended: as above, but the wait after a throttled check is retry_after only
\* when retry_after is not zero, and polling_interval otherwise.
C8_PollOrdering == PollOrdering(PollingInterval)

\* A throttled check is about to be repeated after a full wait of retry_after, which
\* is not the polling interval.
C8_Witness ==
    /\ pc = "check_report_state"
    /\ LastCallWas("check_report_state", "ManagerThrottleError")
    /\ last_call.retry_after # PollingInterval
    /\ slept = last_call.retry_after
    /\ ~is_terminated

\* The effective associations of the reports of `keys`, one after the other.
RECURSIVE EffectiveConcatenation(_)
EffectiveConcatenation(keys) ==
    IF keys = <<>> THEN <<>>
    ELSE LET report == data_to_send[Head(keys)]
         IN  SelectSeq(report.assoc, LAMBDA host : KeepHost(report, host))
                 \o EffectiveConcatenation(Tail(keys))

\* C9: in one cycle all HostGuestAssociationReports go into one batch submitted
\* through hypervisorCheckIn, whose hypervisor list is the concatenation of their
\* effective associations; there is no checkin per source, and none at all when the
\* concatenation is empty.
C9_OneBatchPerCycle ==
    /\ [](batches <= 1)
    /\ [](pc = "hypervisorCheckIn" =>
             /\ BatchedKeys = HostGuestKeys
             /\ Len(reports_batched) = Cardinality(HostGuestKeys)
             /\ all_hypervisors = EffectiveConcatenation(reports_batched)
             /\ all_hypervisors # <<>>
             /\ batches = 0)
    /\ [](last_call.op \in {"hypervisorCheckIn", "check_report_state"} =>
             last_call.arg = all_hypervisors)
    /\ [][(StepFrom("_send_data") /\ data_to_send # <<>>) =>
             ((pc' = "hypervisorCheckIn") <=>
                 (\E k \in HostGuestKeys : association(data_to_send[k]) # <<>>))]_vars

\* One batch of two sources was accepted, one of them with a filtered-out host.
C9_Witness ==
    /\ pc = "poll"
    /\ LastCallWas("hypervisorCheckIn", "returned")
    /\ batches = 1
    /\ Len(reports_batched) = 2
    /\ \E k \in BatchedKeys :
          Len(association(data_to_send[k])) < Len(data_to_send[k].assoc)

\* C10: with print-only off each DomainListReport source gets its own sendVirtGuests
\* call; on success its hash is recorded and it is marked sent; on
\* ManagerThrottleError(retry_after) the worker waits retry_after and retries the
\* same source; on ManagerError or ManagerFatalError the source is not retried in
\* this cycle, its hash is unchanged and under one-shot it is marked erred.
C10_DomainListSubmission ==
    /\ [][/\ (StepFrom("_send_data") /\ data_to_send # <<>>) =>
                /\ Range(domain_list_reports') = DomainListKeys
                /\ Len(domain_list_reports') = Cardinality(DomainListKeys)
          /\ \A k \in SourceKeys :
                (AboutToSendVirtGuests(k) /\ StepFrom("sendVirtGuests")) =>
                   \/ pc' = "run_end"
                   \/ /\ last_call'.op = "sendVirtGuests"
                      /\ last_call'.arg = k
                      /\ last_call'.outcome = "returned" =>
                            /\ last_report_for_source'[k] = hash(data_to_send[k])
                            /\ k \in Range(sources_sent')
                            /\ dl_idx' = dl_idx + 1
                            /\ pc' = pc
                      /\ last_call'.outcome = "ManagerThrottleError" =>
                            /\ last_call'.retry_after = 0 => pc' = pc
                            /\ last_call'.retry_after # 0 =>
                                  /\ pc' = "wait"
                                  /\ wait_left' = last_call'.retry_after
                                  /\ wait_ret' = "sendVirtGuests"
                            /\ dl_idx' = dl_idx
                            /\ last_report_for_source' = last_report_for_source
                      /\ last_call'.outcome = "ManagerError" =>
                            /\ dl_idx' = dl_idx + 1
                            /\ pc' = pc
                            /\ last_report_for_source' = last_report_for_source
                            /\ k \notin Range(sources_sent')
                            /\ oneshot => k \in Range(sources_erred')
                      /\ last_call'.outcome \in
                            {"returned", "ManagerThrottleError", "ManagerError"}]_vars
    /\ [](\A k \in SourceKeys :
             (AboutToSendVirtGuests(k) /\ last_call.op = "sendVirtGuests"
              /\ last_call.arg = k) =>
                 /\ last_call.outcome = "ManagerThrottleError"
                 /\ WaitedFor(last_call.retry_after))

\* The second of two domain-list sources was sent and recorded.
C10_Witness ==
    /\ pc = "sendVirtGuests"
    /\ Len(domain_list_reports) = 2
    /\ dl_idx = 3
    /\ LastCallWas("sendVirtGuests", "returned")
    /\ last_call.arg \in Range(sources_sent)
    /\ last_report_for_source[last_call.arg] = hash(data_to_send[last_call.arg])

\* C11: under one-shot, when at the end of _send_data every key of source_keys is
\* among the sources sent or the sources erred in that cycle, the worker calls
\* stop(): its internal terminate event is set when _send_data returns.  This is
\* the same for the general and for the Satellite 5 destination worker.
C11_StopsWhenAllDealtWith ==
    [][(/\ oneshot
        /\ pc \in {"end_send", "Satellite5_end_send"}
        /\ pc' # pc
        /\ AllDealtWith(source_keys, sources_sent, sources_erred)) =>
           internal_terminate_event']_vars

\* The worker, not its owner, takes a step.
WorkerStep ==
    \/ pc' # pc
    \/ gd_idx' # gd_idx
    \/ dl_idx' # dl_idx
    \/ wait_left' # wait_left

\* C12: under one-shot a destination worker that exits without the shared terminate
\* event having been set does so only when every one of its source keys was sent
\* or erred: the worker sets its own terminate event, in a cycle that did not fail,
\* only at the end of a _send_data in which all of source_keys are dealt with.
C12_ExitsOnlyWhenAllDealtWith ==
    [][(/\ oneshot
        /\ ~terminate_event
        /\ ~has_error
        /\ WorkerStep
        /\ ~internal_terminate_event
        /\ internal_terminate_event') =>
           (pc = "end_send" /\ AllDealtWith(source_keys, sources_sent, sources_erred))]_vars

C16_TerminatedIffEitherEvent ==
    /\ [](is_terminated <=> (internal_terminate_event \/ terminate_event))
    /\ [][/\ StepFrom("run") =>
                ((pc' = "exited") <=> (internal_terminate_event \/ terminate_event))
          /\ StepFrom("_run") =>
                ((pc' = "run_end") <=> (internal_terminate_event \/ terminate_event))
          /\ (StepFrom("run_end") /\ (internal_terminate_event \/ terminate_event)) =>
                pc' = "exited"
          /\ (pc = "wait" /\ WorkerStep) =>
                IF internal_terminate_event \/ terminate_event
                THEN pc' = wait_ret /\ slept' = slept
                ELSE wait_left' = wait_left - 1]_vars

\* The worker left run() with only the shared event set.
C16_Witness ==
    /\ pc \in {"exited", "run_end"}
    /\ terminate_event
    /\ ~internal_terminate_event

\* C17: wait(n) sleeps at most n one-second steps and tests the terminate predicate
\* before each: a step of a wait made when either event is set returns without
\* sleeping, and any other step sleeps once and counts down.
C17_WaitIsTerminateAware ==
    /\ [][/\ (pc = "wait" /\ WorkerStep) =>
                IF internal_terminate_event \/ terminate_event
                THEN pc' = wait_ret /\ slept' = slept
                ELSE /\ wait_left' = wait_left - 1
                     /\ pc' = IF wait_left = 1 THEN wait_ret ELSE "wait"
                     /\ last_call # NoCall => slept' = Min(slept + 1, SleptCap)
          /\ (pc # "wait" /\ pc' = "wait") => wait_left' >= 1]_vars
    /\ [](pc = "wait" => wait_left >= 1)

\* A wait of the longest retry_after was cut short by termination.
C17_Witness ==
    /\ pc = "checkin_retry"
    /\ last_call.retry_after = MaxRetryAfter
    /\ slept < MaxRetryAfter
    /\ is_terminated

\* C18: after a long-running cycle that took e whole seconds the worker sleeps
\* interval - e steps when interval - e >= 0 and starts the next cycle at once when
\* interval - e < 0; it never waits longer than interval.
C18_DriftCorrectedWait ==
    /\ [][(StepFrom("_run_after") /\ ~oneshot) =>
            LET e == delta_seconds'
            IN  /\ e >= 0
                /\ Interval - e > 0 =>
                      /\ pc' = "wait"
                      /\ wait_left' = Interval - e
                      /\ wait_ret' = "_run"
                /\ Interval - e <= 0 =>
                      /\ pc' = "_run"
                      /\ UNCHANGED waitVars]_vars
    /\ []((pc = "wait" /\ wait_ret = "_run") => wait_left <= Interval - delta_seconds)

\* A cycle took longer than the interval and the next one is about to start.
C18_Witness ==
    /\ pc = "_run"
    /\ delta_seconds = Interval + 1
    /\ ~is_terminated

\* C20: when options.print_ is true the destination worker never calls
\* hypervisorCheckIn, check_report_state or sendVirtGuests.
C20_PrintOnlyMakesNoCall == print_ => last_call.op = "none"

\* Neither terminate event is set.
NeitherEventSet == ~internal_terminate_event /\ ~terminate_event

\* C14: when the cycle of a one-shot worker raises while the worker is not
\* terminated, run() passes one ErrorReport of its configuration to _send_data, then
\* sets the internal terminate event and exits without waiting or retrying; the
\* _send_data of a source worker puts that ErrorReport in the datastore under the
\* worker's configuration name.
C14_OneShotErrorReport ==
    [][/\ (oneshot /\ NeitherEventSet /\ pc \in {"prepare", "_get_data"}
           /\ pc' = "run_end") => has_error'
       /\ (oneshot /\ StepFrom("run_end") /\ has_error /\ NeitherEventSet) =>
             /\ pc' = "_send_data(ErrorReport)"
             /\ data_to_send' = ErrorReport(config)
             /\ UNCHANGED <<internal_terminate_event, datastore>>
       /\ (pc' = "_send_data(ErrorReport)" /\ pc # pc') =>
             (pc = "run_end" /\ oneshot /\ has_error)
       /\ (StepFrom("_send_data(ErrorReport)") /\ NeitherEventSet) =>
             /\ datastore' = [datastore EXCEPT ![config] = ErrorReport(config)]
             /\ internal_terminate_event'
             /\ pc' = "exited"
       /\ StepFrom("_send_data(ErrorReport)") => pc' = "exited"
       /\ oneshot => pc' # "wait"]_vars

\* A failed one-shot source worker has left, its ErrorReport in the datastore.
C14_Witness ==
    /\ oneshot
    /\ pc = "exited"
    /\ has_error
    /\ internal_terminate_event
    /\ ~terminate_event
    /\ datastore[config] = ErrorReport(config)

\* C15: an exception raised by prepare, _get_data or _send_data of a long-running
\* worker sets no terminate event and does not end the worker: it waits interval
\* seconds, terminate-aware, and starts a new cycle, whatever failed before.
C15_LongRunningRecovers ==
    [][~oneshot =>
         /\ (WorkerStep /\ NeitherEventSet) => NeitherEventSet'
         /\ (NeitherEventSet /\ pc \in {"prepare", "_get_data", "_send_data"}
             /\ pc' # pc) => pc' \in {"_run", "_send_data", "_run_after", "run_end"}
         /\ (StepFrom("run_end") /\ NeitherEventSet) =>
               /\ pc' = "wait"
               /\ wait_left' = Interval
               /\ wait_ret' = "run"
         /\ (pc = "wait" /\ wait_ret = "run" /\ pc' # pc) => pc' = "run"
         /\ (StepFrom("run") /\ NeitherEventSet) => pc' = "prepare"
         /\ pc' = "exited" => (pc = "exited" \/ internal_terminate_event \/ terminate_event)
         /\ pc' # "_send_data(ErrorReport)"]_vars

\* A long-running worker is about to start a cycle after a failed one and the
\* wait that followed it.
C15_Witness ==
    /\ ~oneshot
    /\ pc = "run"
    /\ has_error
    /\ NeitherEventSet

\* C19: _send_data of a source worker writes its report in the datastore under its
\* configuration name, in place of the entry that was there and leaving the other
\* entries alone, unless the worker is terminated at that time: then it exits at
\* once and the datastore is unchanged.
C19_SourcePublication ==
    [][/\ StepFrom("_send_data") =>
             IF internal_terminate_event \/ terminate_event
             THEN /\ pc' = "exited"
                  /\ datastore' = datastore
             ELSE /\ datastore'[config] = data_to_send
                  /\ \A k \in SourceKeys \ {config} : datastore'[k] = datastore[k]
                  /\ pc' = "_run_after"
       /\ StepFrom("_send_data(ErrorReport)") =>
             IF internal_terminate_event \/ terminate_event
             THEN /\ pc' = "exited"
                  /\ datastore' = datastore
             ELSE /\ datastore'[config] = data_to_send
                  /\ \A k \in SourceKeys \ {config} : datastore'[k] = datastore[k]
       /\ (WorkerStep /\ datastore' # datastore) =>
             pc \in {"_send_data", "_send_data(ErrorReport)"}]_vars

\* A source worker that had gathered a report found itself terminated when sending
\* it and left; an entry of another worker is in the datastore, its own is not.
C19_Witness ==
    /\ pc = "exited"
    /\ terminate_event
    /\ ~internal_terminate_event
    /\ data_to_send # <<>>
    /\ datastore[config] = NotSetSentinel
    /\ \E k \in SourceKeys \ {config} : datastore[k] # NotSetSentinel

\* C21: in print-only mode every report the destination worker gathered for
\* submission in a cycle (the domain lists, and the host/guest associations of a
\* batch that has a hypervisor) is in reports_to_print when the cycle's _send_data
\* ends.
C21_PrintOnlyCapturesReports ==
    (print_ /\ pc = "end_send") =>
        \A k \in Range(domain_list_reports) \cup
                 (IF all_hypervisors # <<>> THEN BatchedKeys ELSE {}) :
            data_to_send[k] \in Range(reports_to_print)

\* C30: prepare() has been invoked when _get_data runs, and it is invoked only on a
\* worker on which it has not been invoked before.
C30_PrepareOnce ==
    /\ [](pc = "_get_data" => prepared)
    /\ [][(pc = "prepare" /\ pc' # pc) => ~prepared]_vars

\* The Satellite 5 worker handles the next item of data_to_send.iteritems().
Satellite5_Handles(type) ==
    /\ pc = "Satellite5_for"
    /\ iteritems # <<>>
    /\ data_to_send[Head(iteritems)].type = type
    /\ iteritems' # iteritems

\* C22: the Satellite 5 worker makes no manager call for a DomainListReport and
\* marks its source erred; under one-shot the sources so marked are not in
\* source_keys when _send_data has returned.
C22_Satellite5DomainList ==
    [][/\ Satellite5_Handles("DomainListReport") =>
             /\ last_call' = last_call
             /\ Head(iteritems) \in Range(sources_erred')
             /\ Head(iteritems) \notin Range(sources_sent')
       /\ (oneshot /\ pc = "Satellite5_end_send" /\ pc' # pc) =>
             \A k \in DomainListKeys : k \notin Range(source_keys')]_vars

\* C23: the only manager call of the Satellite 5 worker is hypervisorCheckIn, made
\* once per HostGuestAssociationReport with the association of that report alone;
\* when the call returns, the hash of that report is recorded as the last sent of
\* its source, the other records are untouched and the source is marked sent.
C23_Satellite5CheckInPerSource ==
    /\ [](last_call.op \in {"none", "hypervisorCheckIn"})
    /\ [][/\ Satellite5_Handles("HostGuestAssociationReport") => FALSE
          /\ (pc = "Satellite5_for" /\ pc' = "Satellite5_hypervisorCheckIn") =>
                /\ data_to_send[Head(iteritems)].type = "HostGuestAssociationReport"
                /\ last_call' = last_call
          /\ (last_call' # last_call /\ last_call'.op = "hypervisorCheckIn") =>
                /\ pc = "Satellite5_hypervisorCheckIn"
                /\ last_call'.arg = association(data_to_send[Head(iteritems)])
          /\ (pc = "Satellite5_hypervisorCheckIn" /\ pc' = "Satellite5_for") =>
                LET source_key == Head(iteritems)
                IN  /\ iteritems' = Tail(iteritems)
                    /\ \/ /\ last_call'.outcome = "returned"
                          /\ last_report_for_source'[source_key] =
                                 hash(data_to_send[source_key])
                          /\ \A k \in SourceKeys \ {source_key} :
                                 last_report_for_source'[k] = last_report_for_source[k]
                          /\ sources_sent' = Append(sources_sent, source_key)
                          /\ sources_erred' = sources_erred
                       \/ /\ last_call'.outcome = "ManagerFatalError"
                          /\ last_report_for_source' = last_report_for_source
                          /\ sources_sent' = sources_sent]_vars

\* Two sources were checked in one after the other in one cycle, the second call
\* carrying the second report only, and both hashes are recorded.
C23_Witness ==
    /\ pc = "Satellite5_for"
    /\ Len(sources_sent) = 2
    /\ iteritems = <<>>
    /\ LastCallWas("hypervisorCheckIn", "returned")
    /\ HostGuestKeys = SourceKeys
    /\ association(data_to_send[sources_sent[1]]) # <<>>
    /\ last_call.arg = association(data_to_send[sources_sent[2]])
    /\ last_call.arg # <<>>
    /\ \A i \in 1..2 : last_report_for_source[sources_sent[i]] =
                            hash(data_to_send[sources_sent[i]])

\* C24: after hypervisorCheckIn raised ManagerThrottleError(retry_after) the
\* Satellite 5 worker makes its next manager call only when a wait of retry_after
\* seconds has run to its end (or was cut short by termination), and that call is
\* the checkin of the same source.
C24_Satellite5ThrottleWait ==
    [][(/\ pc = "Satellite5_hypervisorCheckIn"
        /\ LastCallWas("hypervisorCheckIn", "ManagerThrottleError")
        /\ (pc' # pc \/ last_call' # last_call)) =>
           /\ WaitedFor(last_call.retry_after)
           /\ last_call'.op = "hypervisorCheckIn" => last_call'.arg = last_call.arg]_vars

\* The latest poll on which a worker of the list turns terminated.
RECURSIVE LatestBecomesTrue(_)
LatestBecomesTrue(list) ==
    IF list = <<>> THEN 1
    ELSE LET rest == LatestBecomesTrue(Tail(list))
         IN  IF Head(list).becomes_true > rest THEN Head(list).becomes_true ELSE rest

DefaultArguments == ~max_wait.given /\ ~kill_on_expiry

\* C25: wait_on_threads with default arguments returns only when is_terminated()
\* of every worker has returned true, having slept one second after each polling
\* round but the last (2 sleeps for workers that turn true on polls 2 and 3), never
\* asks a worker again that has answered true, and never invokes terminate_threads.
C25_WaitOnThreads ==
    /\ [](\A i \in DOMAIN threads : threads[i].polls <= threads[i].becomes_true)
    /\ [][(executor_pc = "wait_on_threads" /\ DefaultArguments) =>
            /\ executor_pc' # "terminate_threads"
            /\ ~terminate_threads_called'
            /\ executor_pc' = "returned" =>
                  /\ \A i \in DOMAIN threads : threads'[i].polls = threads'[i].becomes_true
                  /\ retval' = <<>>
                  /\ sleep_calls' = [n \in 1..(LatestBecomesTrue(threads) - 1) |-> 1]
                  /\ (Len(threads) = 2 /\ threads[1].becomes_true = 2
                      /\ threads[2].becomes_true = 3) => Len(sleep_calls') = 2]_vars

\* wait_on_threads has returned for the two workers of the test.
C25_Witness ==
    /\ executor_pc = "returned"
    /\ DefaultArguments
    /\ Len(threads) = 2
    /\ threads[1].becomes_true = 2 /\ threads[1].polls = 2
    /\ threads[2].becomes_true = 3 /\ threads[2].polls = 3
    /\ sleep_calls = <<1, 1>>
    /\ ~terminate_threads_called

\* C26: when terminate_threads returns, stop() has been called on every worker it
\* was given, whose internal terminate event is therefore set, and every one of them
\* has been joined; a worker is joined only after its stop().
C26_TerminateThreads ==
    /\ [](\A i \in DOMAIN threads : threads[i].joined => threads[i].stop_calls > 0)
    /\ [][(executor_pc = "terminate_threads" /\ executor_pc' = "returned") =>
            \A i \in DOMAIN threads :
                (threads_not_terminated = <<>> \/ i \in Range(threads_not_terminated)) =>
                    /\ threads'[i].internal_terminate_event
                    /\ threads'[i].joined]_vars

\* terminate_threads has returned for two workers.
C26_Witness ==
    /\ executor_pc = "returned"
    /\ terminate_threads_called
    /\ Len(threads) = 2
    /\ \A i \in 1..2 : threads[i].internal_terminate_event /\ threads[i].joined

\* The value of the channel that wins the merge, when one is given.
Configured == Or(cli_interval, Or(env_interval, file_interval))

\* C27: the interval that option resolution yields is the larger of the value
\* configured and 60, on whichever channel that value came (1, 5, 59, 60 and 61 give
\* 60, 60, 60, 60 and 61), and the interval of a worker constructed from the
\* options is at least 60.
C27_IntervalClamp ==
    /\ (options_pc # "idle" /\ Configured # 0) =>
          /\ options_interval = IF Configured > 60 THEN Configured ELSE 60
          /\ Configured \in {1, 5, 59, 60} => options_interval = 60
          /\ Configured = 61 => options_interval = 61
    /\ options_pc # "idle" => options_interval >= 60
    /\ options_pc = "constructed" =>
          /\ self_interval >= 60
          /\ self_interval = options_interval

\* A worker was constructed from options whose interval, 5 in the environment, was
\* raised to 60, while its configuration carries a smaller interval.
C27_Witness ==
    /\ options_pc = "constructed"
    /\ cli_interval = 0 /\ env_interval = 5 /\ file_interval = 1
    /\ options_interval = 60
    /\ config_interval = 1
    /\ self_interval = 60

\* C28: two Hypervisors, DomainListReports or HostGuestAssociationReports that
\* differ only in the order of their guests, hypervisors or facts have the same
\* content hash.
C28_HashOrderInvariant == report_pc = "hashed" => hash_a = hash_b

\* A host id matches a pattern of the list: the id itself, "*" or ".*".
MatchesAny(host, list) == \E i \in DOMAIN list : list[i] \in {host, Star, DotStar}

\* The hypervisor is neither excluded nor, when filter_hosts is set, left unmatched.
InEffectiveAssociation(report, host) ==
    /\ report.exclude_hosts.given => ~MatchesAny(host.hypervisorId, report.exclude_hosts.patterns)
    /\ report.filter_hosts.given => MatchesAny(host.hypervisorId, report.filter_hosts.patterns)

\* C29: the association of a HostGuestAssociationReport holds, in their original
\* order, exactly the hypervisors of the raw association that match no
\* exclude_hosts pattern and, when filter_hosts is set, match one of its patterns;
\* the hash of the report is that of a report made of the effective association
\* alone, and differs from the hash of the unfiltered report when a hypervisor has
\* been left out.
C29_EffectiveAssociation ==
    (report_pc = "hashed" /\ "assoc" \in DOMAIN report_a) =>
        /\ effective = SelectSeq(report_a.assoc,
                                 LAMBDA host : InEffectiveAssociation(report_a, host))
        /\ hash_a = [sha256 |-> [hypervisors |->
                         sorted([i \in DOMAIN effective |->
                                    json_dumps(Hypervisor_toDict(effective[i]))],
                                [i \in DOMAIN effective |-> effective[i].hypervisorId])]]
        /\ Len(effective) < Len(report_a.assoc) => hash_a # hash_unfiltered

\* Of two hypervisors the second, matched by the second exclude_hosts pattern, has
\* been left out, and the hash differs from the unfiltered one.
C29_Witness ==
    /\ report_pc = "hashed"
    /\ "assoc" \in DOMAIN report_a
    /\ report_a.exclude_hosts = Patterns(<<3, 1>>)
    /\ ~report_a.filter_hosts.given
    /\ Len(report_a.assoc) = 2
    /\ report_a.assoc[1].hypervisorId = 2
    /\ effective = <<report_a.assoc[1]>>
    /\ hash_a # hash_unfiltered

\* C31: stop() on one worker sets that worker's own terminate flag and no other
\* worker's, leaves the shared terminate flag and the is_terminated() of every
\* other worker as they were, and neither the shared flag nor any worker's own
\* flag is cleared once set.
C31_StopAffectsOneWorker ==
    [][/\ \A w \in stop_called' :
              /\ workers'[w].internal_terminate_event
              /\ terminate_event' = terminate_event
              /\ \A v \in Workers \ {w} :
                    /\ workers'[v].internal_terminate_event =
                           workers[v].internal_terminate_event
                    /\ Worker_is_terminated(workers'[v], terminate_event') =
                           Worker_is_terminated(workers[v], terminate_event)
       /\ terminate_event => terminate_event'
       /\ workers_pc = "started" =>
              \A v \in Workers :
                  workers[v].internal_terminate_event =>
                      workers'[v].internal_terminate_event]_vars

\* stop() has been called on one worker while the others run on, the shared flag
\* unset.
C31_Witness ==
    /\ workers_pc = "started"
    /\ stop_called = {"A"}
    /\ workers["A"].internal_terminate_event
    /\ ~terminate_event
    /\ \A v \in Workers \ {"A"} :
          /\ workers[v].terminate_event_given
          /\ ~Worker_is_terminated(workers[v], terminate_event)

\* C32: when a source has published a report with another hash while the batch
\* with its older report was in flight, the hash recorded for the FINISHED batch is
\* that of the older report, which was submitted, and it stays recorded until the
\* source is read again; in the next cycle of a long-running worker _get_data
\* selects the report then in the datastore if its hash is not the recorded one,
\* and _send_data batches it and submits the batch when the report has a hypervisor.
C32_NoLostUpdate ==
    /\ [][/\ (StepFrom("finish_batch") /\ batch_state = STATE_FINISHED) =>
                \A k \in BatchedKeys :
                   hash(datastore[k]) # hash(data_to_send[k]) =>
                      /\ last_report_for_source'[k] = hash(data_to_send[k])
                      /\ last_report_for_source'[k] # hash(datastore'[k])
          /\ (failed_hash.cause = "superseded" /\ StepFrom("_get_data")) =>
                LET k == source_keys[gd_idx]
                IN  (failed_hash.hashes[k] # None
                        /\ hash(datastore[k]) # failed_hash.hashes[k])
                    => (k \in DOMAIN data_to_send' /\ data_to_send'[k] = datastore[k])
          /\ (failed_hash.cause = "superseded" /\ StepFrom("_send_data")) =>
                \A k \in DOMAIN data_to_send :
                   (failed_hash.hashes[k] # None
                       /\ hash(data_to_send[k]) # failed_hash.hashes[k]) =>
                      /\ k \in Range(reports_batched')
                      /\ association(data_to_send[k]) # <<>> =>
                            /\ pc' = "hypervisorCheckIn"
                            /\ Range(association(data_to_send[k]))
                                   \subseteq Range(all_hypervisors')]_vars
    /\ [](failed_hash.cause = "superseded" =>
             \A k \in SourceKeys :
                failed_hash.hashes[k] # None =>
                   last_report_for_source[k] = failed_hash.hashes[k])

\* The report published while the older one was in flight has been selected in the
\* next cycle: the older one's hash is the recorded one, and the newer report has a
\* hypervisor to submit.
C32_Witness ==
    /\ pc = "_send_data"
    /\ failed_hash.cause = "superseded"
    /\ \E k \in DOMAIN data_to_send :
          /\ failed_hash.hashes[k] # None
          /\ last_report_for_source[k] = failed_hash.hashes[k]
          /\ hash(data_to_send[k]) # failed_hash.hashes[k]
          /\ data_to_send[k] = datastore[k]
          /\ association(data_to_send[k]) # <<>>

\* C33: when hypervisorCheckIn returns a falsy job handle, check_report_state is not
\* called for the batch; the last-sent hashes of the batched sources are updated, and
\* the sources marked sent, exactly when the batch report is FINISHED as the call
\* returned; otherwise the hashes, the sent and the erred sources are left as they
\* were, no batched source is sent or erred, and in the next cycle of a long-running
\* worker the same reports are selected and batched again.
C33_SynchronousCheckIn ==
    /\ [][/\ (StepFrom("poll") /\ result = Falsy) => pc' = "finish_batch"
          /\ (result = Falsy /\ result' = Falsy) => batch_state' = batch_state
          /\ (StepFrom("finish_batch") /\ result = Falsy) =>
                IF batch_state = STATE_FINISHED
                THEN \A k \in BatchedKeys :
                        /\ last_report_for_source'[k] = hash(data_to_send[k])
                        /\ k \in Range(sources_sent')
                ELSE /\ last_report_for_source' = last_report_for_source
                     /\ sources_sent' = sources_sent
                     /\ sources_erred' = sources_erred
                     /\ BatchedKeys \cap
                            (Range(sources_sent') \cup Range(sources_erred')) = {}
          /\ RetriedWhen(failed_hash.handle = Falsy
                             /\ failed_hash.cause \in {"state", "unfinished"})]_vars
    /\ [](result = Falsy =>
             /\ pc \in {"poll", "finish_batch"}
             /\ LastCallWas("hypervisorCheckIn", "returned"))

\* A batch answered with a falsy handle and a state other than FINISHED was left
\* unrecorded, and its report has been selected again in the next cycle.
C33_Witness ==
    /\ pc = "_send_data"
    /\ failed_hash.handle = Falsy
    /\ failed_hash.cause = "unfinished"
    /\ \E k \in DOMAIN data_to_send :
          /\ hash(data_to_send[k]) = failed_hash.hashes[k]
          /\ last_report_for_source[k] # failed_hash.hashes[k]
====
